---- MODULE Spec2Model ----
(***************************************************************************)
(* State-machine model of the Replay-Synchronized Live-State Orchestrator  *)
(* of ai-trader2.                                                          *)
(*                                                                         *)
(* Part 1: the push connection kept by App's connection effect             *)
(* (src/unnamed/part_001, lines 224 and 278-510, 549-554): the module      *)
(* singleton socket, the effect closures with their `ws` and               *)
(* `reconnectTimer` variables, the socket event handlers, the outbound     *)
(* operations and the snapshot state kept from inbound messages.           *)
(*                                                                         *)
(* Conventions.  JavaScript values are modelled by strings: "null",        *)
(* "undefined" (also what reading a field missing from a message yields),  *)
(* "[]" (an empty array), "0" (a number, used for fields of the wrong      *)
(* type) and named payloads such as "c1".  Socket and effect identities    *)
(* are positive integers, 0 stands for null / none.                        *)
(*                                                                         *)
(* One effect run (App mount) creates one closure; the component instance  *)
(* (its state and wsRef) survives the cleanup/re-run pair, as under        *)
(* React.StrictMode and fast refresh (App is the root component).          *)
(* The accounts list fetched over REST (refreshAccounts) is outside the    *)
(* modelled state.                                                         *)
(*                                                                         *)
(* Part 2: the replay clock controller of ComprehensiveView                *)
(* (src/frontend/app/components/portfolio/ComprehensiveView.tsx, lines     *)
(* 109-286): the poll effect with its refs, the auto-advance effect,       *)
(* handleStart, handleStop, handleAdvance and the controls panel, against  *)
(* a server clock modelled from spec.md (the REST client src/lib/api is    *)
(* not part of the sources).                                               *)
(*                                                                         *)
(* Part 3: the price chart of the view (PriceChart.tsx, lines 481-700):    *)
(* the window filter, the trade markers and the count of the series fetch. *)
(***************************************************************************)
EXTENDS Integers, Sequences, FiniteSets, TLC

\* ---------------------------------------------------------------- bounds
MaxMounts == 2        \* effect runs (closures) in one behaviour
MaxSockets == 3       \* sockets constructed in one behaviour
MaxSent == 2          \* messages logged per socket
MaxTrigger == 1       \* increments of accountRefreshTrigger
MaxViewMounts == 2    \* runs of ComprehensiveView's poll effect in one behaviour
MaxRenders == 1       \* re-renders that hand the view a new onRefreshData
MaxTicks == 2         \* auto-advance ticks whose callback has not finished
MaxFetches == 1       \* series requests of the chart in flight
MaxPoints == 3        \* points of a series response
MaxTrades == 2        \* trades handed to the chart

\* ------------------------------------------------------ program constants
RECONNECT_DELAY_MS == 3000
RETRY_DELAY_MS == 5000
CLOSE_NORMAL == 1000
CLOSE_GOING_AWAY == 1001
CLOSE_ABNORMAL == 1006

CONFIG_normalMs == 10000
CONFIG_backoffMs == 30000
SETTLE_MS == 500
SECONDS_PER_DAY == 86400
BASE_MS_PER_DAY == 2000

Effects == 1..MaxMounts
Sockets == 1..MaxSockets
CloseCodes == {CLOSE_NORMAL, CLOSE_GOING_AWAY, CLOSE_ABNORMAL}

VARIABLES
  singleton,      \* __WS_SINGLETON__ : socket id or 0
  wsRef,          \* wsRef.current    : socket id or 0
  mountedEffect,  \* the effect run that has not been cleaned up, or 0
  nEffects,       \* effect runs so far
  nSockets,       \* sockets constructed so far
  readyState,     \* socket -> "NONE" | "CONNECTING" | "OPEN" | "CLOSING" | "CLOSED"
  handlers,       \* socket -> the effect run whose listeners are attached
  wsVar,          \* effect run -> its closure variable `ws`
  timer,          \* effect run -> delay of its pending reconnect timer, 0 = none
  sent,           \* socket -> message types transmitted on its connection,
                  \*   in order; the record ends with the connection
  bootAck,        \* socket -> bootstrap_ok with an account was received on
                  \*   its connection
  wsConnected, wsError,
  user, account, overview, positions, orders, trades, aiDecisions,
  allAssetCurves,
  accountRefreshTrigger,
  ev,             \* the step just taken (observation only)
  \* --- ComprehensiveView (the replay clock controller) and the server clock
  viewEffect,         \* the poll-effect run that has not been cleaned up, or 0
  nViewEffects,       \* poll-effect runs so far
  cancelled,          \* poll-effect run -> its closure variable `cancelled`
  pollTimeoutRef,     \* pollTimeoutRef.current: the run whose timer it holds, or 0
  pollTimer,          \* poll-effect run -> delay of its pending poll timer, 0 = none
  inFlightRef,        \* inFlightRef.current
  pollReq,            \* poll-effect run -> its getReplayState request
  renderGen,          \* the render that created the current onRefreshData prop
  onRefreshDataRef,   \* onRefreshDataRef.current: the render of the callback it holds
  replayState, loading, showReplayControls,
  startOp,            \* the running handleStart call
  advanceOp,          \* the running handleAdvance call
  srv,                \* the replay clock of the server
  rev,                \* the controller step just taken (observation only)
  speedMultiplier,    \* the speed input of the controls panel
  tradingIntervalDays, \* the interval select of the controls panel
  stopOp,             \* the running handleStop call
  autoTimers,         \* the armed intervals of the auto-advance effect, in
                      \*   the order of arming
  tickOp,             \* tick slot -> the running callback of an interval tick
  \* --- PriceChart (one chart of the view)
  chartMounted,       \* the chart's fetch effect has run and is not cleaned up
  chartTrades,        \* the prop `trades`
  chartReplayState,   \* the prop `replayState`
  timeframe, historyRange,
  klineData,          \* the series of the last applied response
  klineLoading,       \* the state `loading` of the chart
  klineError,         \* the state `error` of the chart is not null
  klineReq,           \* the getCryptoKline requests in flight, oldest first
  validKlineData,     \* the filtered series of the last render
  symbolTrades,       \* the trades the last render aligned
  buyMarkers, sellMarkers,
  buyData, sellData,  \* the two marker channels of the last render
  cev                 \* the chart step just taken (observation only)

connVars == <<singleton, wsRef, mountedEffect, nEffects, nSockets, readyState,
              handlers, wsVar, timer>>
wireVars == <<sent, bootAck>>
uiVars   == <<wsConnected, wsError, accountRefreshTrigger>>
dataVars == <<user, account, overview, positions, orders, trades, aiDecisions,
              allAssetCurves>>
pollVars == <<viewEffect, nViewEffects, cancelled, pollTimeoutRef, pollTimer,
              inFlightRef, pollReq>>
ctlVars == <<speedMultiplier, tradingIntervalDays, stopOp, tickOp>>
clockVars == <<pollVars, renderGen, onRefreshDataRef, replayState, loading,
               showReplayControls, startOp, advanceOp, srv, rev, ctlVars,
               autoTimers>>
chartVars == <<chartMounted, chartTrades, chartReplayState, timeframe,
               historyRange, klineData, klineLoading, klineError, klineReq,
               validKlineData, symbolTrades, buyMarkers, sellMarkers, buyData,
               sellData, cev>>
viewVars == <<clockVars, chartVars>>
appVars == <<connVars, wireVars, uiVars, dataVars, ev>>
vars == <<connVars, wireVars, uiVars, dataVars, ev, viewVars>>

\* An inbound frame: json says whether e.data parses ("object"), parses to
\* null ("null") or does not parse ("invalid"); the other fields are the
\* fields of the parsed object, "undefined" when missing.
Frame(json, type, u, a, o, p, r, t, d, c, m) ==
  [json |-> json, type |-> type, user |-> u, account |-> a, overview |-> o,
   positions |-> p, orders |-> r, trades |-> t, ai_decisions |-> d,
   all_asset_curves |-> c, message |-> m]
U == "undefined"
NoFrame == Frame("none", U, U, U, U, U, U, U, U, U, U)

EvM(op, sock, eff, arg, out, msg) ==
  [op |-> op, sock |-> sock, eff |-> eff, arg |-> arg, out |-> out, msg |-> msg]
Ev(op, sock, eff, arg, out) == EvM(op, sock, eff, arg, out, NoFrame)

\* ------------------------------------------------------------ JS helpers
\* JavaScript truthiness of a modelled value.
Truthy(v) == v \notin {"undefined", "null", "0", ""}
\* v || d
OrElse(v, d) == IF Truthy(v) THEN v ELSE d
\* v is null or undefined
Nullish(v) == v \in {"undefined", "null"}
\* v is a JavaScript number (a value without .slice and .includes)
IsNumber(v) == v \in {"0", "7"}

\* A socket is live while the browser can still deliver open/close for it.
Live(s) == readyState[s] \in {"CONNECTING", "OPEN"}
LiveSockets == {s \in Sockets : Live(s)}

\* WebSocket.send on socket `sock` whose ready states are rs: throws on a
\* CONNECTING socket (or on a null reference), transmits on OPEN, silently
\* discards on CLOSING / CLOSED.
SendThrows(rs, sock) == IF sock = 0 THEN TRUE ELSE rs[sock] = "CONNECTING"
SendLog(log, rs, sock, type) ==
  IF sock # 0 /\ rs[sock] = "OPEN"
    THEN [log EXCEPT ![sock] = Append(@, type)]
    ELSE log
\* The log of a socket has room for one more entry.
Room(sock) ==
  IF sock = 0 THEN TRUE
  ELSE IF readyState[sock] # "OPEN" THEN TRUE
  ELSE Len(sent[sock]) < MaxSent

\* ------------------------------------------- replay clock: the values
ViewEffects == 1..MaxViewMounts
Renders == 0..MaxRenders
Ticks == 1..MaxTicks

\* The value of a date input: empty, a string that is no date, or a date.
DateInputs == {"", "not-a-date", "2024-01-01", "2024-01-02"}
\* new Date(d) as seconds since 2024-01-01, NaN for an invalid date.
NaN == -1
NewDate(d) ==
  CASE d = "2024-01-01" -> 0
    [] d = "2024-01-02" -> SECONDS_PER_DAY
    [] OTHER -> NaN
\* a >= b on Date objects: false when either side is NaN.
DateGe(a, b) == a # NaN /\ b # NaN /\ a >= b
\* `${startDate}T00:00:00Z` and `${endDate}T23:59:59Z` as the instants they
\* denote, NaN when the string is no ISO datetime.
StartDateTime(startDate) == NewDate(startDate)
EndDateTime(endDate) ==
  IF NewDate(endDate) = NaN THEN NaN ELSE NewDate(endDate) + SECONDS_PER_DAY - 1

\* The values of the speed input (a number from 0.1 to 10) and of the
\* interval select.
SpeedInputs == {1, 2}
IntervalInputs == {1, 7}

\* A ReplayState value {active, state}; null marks the local value before
\* any poll and after a stop.  The fields of `state` are 0 when there is no
\* state; trading_interval_days is 0 when the server omits it.
RS(nl, active, s, e, c, speed, days) ==
  [null |-> nl, active |-> active, start_date |-> s, end_date |-> e,
   current_date |-> c, speed_multiplier |-> speed,
   trading_interval_days |-> days]
NullState == RS(TRUE, FALSE, 0, 0, 0, 0, 0)
Inactive == RS(FALSE, FALSE, 0, 0, 0, 0, 0)

\* A request to the REST API: net is "none", "sent" (not answered yet),
\* "ok" / "refused" / "fail" (answered, the awaiting code has not run yet).
Req(net, resp) == [net |-> net, resp |-> resp]
NoReq == Req("none", NullState)
\* A handleStart / handleAdvance call: pc is the await or timer it stands at.
\* a and b are the window of a startReplay request, or the delay of a timer.
Op(pc, net, resp, a, b) ==
  [pc |-> pc, net |-> net, resp |-> resp, a |-> a, b |-> b]
Idle == Op("idle", "none", NullState, 0, 0)

\* An interval armed by a run of the auto-advance effect: its period in
\* milliseconds and the tradingIntervalSeconds its callback closes over.
Interval(ms, tradingIntervalSeconds) ==
  [period |-> ms, seconds |-> tradingIntervalSeconds]

\* A controller step: the effect run it belongs to, its outcome, whether it
\* called onRefreshData and, for the poll, the render whose callback it called.
Rev(op, run, out, refresh, gen) ==
  [op |-> op, run |-> run, out |-> out, refresh |-> refresh, gen |-> gen]

\* ------------------------------------------------ price chart: the values
\* Instants are held in seconds since 2024-01-01T00:00:00Z, so can be
\* negative; getTime() and `timestamp * 1000` are both in milliseconds in
\* the code and every instant of the model is a whole number of seconds, so
\* the two sides of a comparison are held in thousands of milliseconds.
\* getTime() of an invalid date is NaN, and a comparison with NaN is false.
HOUR == 60 * 60
DAY == 24 * HOUR
\* A missing (null or undefined) number.
Absent == -1
\* a ?? b
Coalesce(a, b) == IF a # Absent THEN a ELSE b

\* A KlineData point.  datetime is "" when the field is missing, "same" for
\* a string that new Date() reads as the instant of `timestamp`, "late" for
\* one it reads as a later instant (a string without a zone designator read
\* in a zone behind UTC) and "bad" for a string that is no date.
KlineData(timestamp, datetime, close, open) ==
  [timestamp |-> timestamp, datetime |-> datetime, close |-> close,
   open |-> open]
ZONE_S == 5 * HOUR
\* new Date(k.datetime).getTime()
DatetimeTime(k) ==
  CASE k.datetime = "same" -> k.timestamp
    [] k.datetime = "late" -> k.timestamp + ZONE_S
    [] OTHER -> NaN

\* A Trade; trade_time holds the instant new Date(trade_time).getTime()
\* yields, NaN when the string is no date; market is "" when missing.
Trade(id, symbol, market, side, price, trade_time) ==
  [id |-> id, symbol |-> symbol, market |-> market, side |-> side,
   price |-> price, trade_time |-> trade_time]
\* A marker {x, y}; id is the trade it was made for.
Marker(x, y, id) == [x |-> x, y |-> y, id |-> id]

\* The props symbol and market of the chart (ComprehensiveView passes
\* market="CRYPTO").
symbol == "BTC"
market == "CRYPTO"

Timeframes == {"1m", "5m", "15m", "1h", "1d"}
HistoryRanges == {"1M", "3M", "6M", "1Y", "2Y", "ALL"}

\* A chart step: the count it passed to getCryptoKline, 0 when it fetched
\* nothing.
Cev(op, count) == [op |-> op, count |-> count]

\* The chart before its first render.
InitChartVars ==
  /\ chartMounted = FALSE
  /\ chartTrades = <<>> /\ chartReplayState = NullState
  /\ timeframe = "1d" /\ historyRange = "1Y"
  /\ klineData = <<>>
  /\ klineLoading = TRUE /\ klineError = FALSE
  /\ klineReq = <<>>
  /\ validKlineData = <<>> /\ symbolTrades = <<>>
  /\ buyMarkers = <<>> /\ sellMarkers = <<>>
  /\ buyData = <<>> /\ sellData = <<>>
  /\ cev = Cev("init", 0)

InitView ==
  /\ InitChartVars
  /\ viewEffect = 0 /\ nViewEffects = 0
  /\ cancelled = [k \in ViewEffects |-> FALSE]
  /\ pollTimeoutRef = 0
  /\ pollTimer = [k \in ViewEffects |-> 0]
  /\ inFlightRef = FALSE
  /\ pollReq = [k \in ViewEffects |-> NoReq]
  /\ renderGen = 0 /\ onRefreshDataRef = 0
  /\ replayState = NullState
  /\ loading = FALSE /\ showReplayControls = FALSE
  /\ startOp = Idle /\ advanceOp = Idle
  /\ srv = Inactive
  /\ rev = Rev("init", 0, "", 0, 0)
  /\ speedMultiplier = 1 /\ tradingIntervalDays = 1
  /\ stopOp = Idle
  /\ autoTimers = <<>>
  /\ tickOp = [t \in Ticks |-> Idle]

Init ==
  /\ InitView
  /\ singleton = 0 /\ wsRef = 0
  /\ mountedEffect = 0 /\ nEffects = 0 /\ nSockets = 0
  /\ readyState = [s \in Sockets |-> "NONE"]
  /\ handlers = [s \in Sockets |-> 0]
  /\ wsVar = [c \in Effects |-> 0]
  /\ timer = [c \in Effects |-> 0]
  /\ sent = [s \in Sockets |-> <<>>]
  /\ bootAck = [s \in Sockets |-> FALSE]
  /\ wsConnected = FALSE /\ wsError = "null"
  /\ user = "null" /\ account = "null" /\ overview = "null"
  /\ positions = "[]" /\ orders = "[]" /\ trades = "[]"
  /\ aiDecisions = "[]" /\ allAssetCurves = "[]"
  /\ accountRefreshTrigger = 0
  /\ ev = Ev("init", 0, 0, "", "")

\* ------------------------------------------------- connection: the effect
\* The catch block of connectWebSocket: retry after RETRY_DELAY_MS.
connectFailed_NoRetry(c, tm) ==
  timer' = tm
connectFailed(c, tm) ==
  timer' = [tm EXCEPT ![c] = RETRY_DELAY_MS]

\* connectWebSocket of effect run c.  wsv and tm are the closure variables
\* as they stand when it is called; throws says whether `new WebSocket`
\* throws synchronously.
connectWebSocket(c, throws, wsv, tm) ==
  IF throws
    THEN /\ connectFailed(c, tm)
         /\ wsVar' = wsv
         /\ UNCHANGED <<singleton, wsRef, nSockets, readyState, handlers>>
    ELSE /\ nSockets < MaxSockets
         /\ LET s == nSockets + 1 IN
              /\ nSockets' = s
              /\ readyState' = [readyState EXCEPT ![s] = "CONNECTING"]
              /\ wsVar' = [wsv EXCEPT ![c] = s]
              /\ singleton' = s
              /\ wsRef' = s
              /\ handlers' = [handlers EXCEPT ![s] = c]
              /\ timer' = tm

\* `created` of the effect body.
created(ws) == IF ws = 0 THEN TRUE ELSE readyState[ws] \in {"CLOSING", "CLOSED"}

\* The effect body: one run of useEffect(..., []).
Mount(throws) ==
  /\ mountedEffect = 0
  /\ nEffects < MaxMounts
  /\ LET c == nEffects + 1
         ws == singleton
     IN /\ nEffects' = c
        /\ mountedEffect' = c
        /\ IF created(ws)
             THEN /\ connectWebSocket(c, throws, [wsVar EXCEPT ![c] = ws], timer)
                  /\ ev' = Ev("mount", 0, c, "", IF throws THEN "threw" ELSE "created")
             ELSE /\ throws = FALSE
                  /\ wsRef' = ws
                  /\ wsVar' = [wsVar EXCEPT ![c] = ws]
                  /\ UNCHANGED <<singleton, nSockets, readyState, handlers, timer>>
                  /\ ev' = Ev("mount", 0, c, "", "reused")
  /\ UNCHANGED <<wireVars, uiVars, dataVars>>
  /\ UNCHANGED viewVars

\* The effect cleanup: clearTimeout(reconnectTimer); the socket stays.
Unmount ==
  /\ mountedEffect # 0
  /\ timer' = [timer EXCEPT ![mountedEffect] = 0]
  /\ mountedEffect' = 0
  /\ ev' = Ev("unmount", 0, mountedEffect, "", "")
  /\ UNCHANGED <<singleton, wsRef, nEffects, nSockets, readyState, handlers,
                 wsVar, wireVars, uiVars, dataVars>>
  /\ UNCHANGED viewVars

\* A pending reconnect timer of effect run c fires and calls connectWebSocket.
TimerFire(c, throws) ==
  /\ timer[c] # 0
  /\ connectWebSocket(c, throws, wsVar, [timer EXCEPT ![c] = 0])
  /\ ev' = Ev("timer", 0, c, "", IF throws THEN "threw" ELSE "created")
  /\ UNCHANGED <<mountedEffect, nEffects, wireVars, uiVars, dataVars>>
  /\ UNCHANGED viewVars

\* ---------------------------------------------- connection: socket events
\* handleOpen of closure c; rs are the ready states when the event is
\* dispatched.
handleOpen(c, rs) ==
  /\ wsConnected' = TRUE
  /\ wsError' = "null"
  /\ sent' = SendLog(sent, rs, wsVar[c], "bootstrap")

\* The browser opens socket s and dispatches `open`.
SocketOpen(s) ==
  /\ readyState[s] = "CONNECTING"
  /\ readyState' = [readyState EXCEPT ![s] = "OPEN"]
  /\ handleOpen(handlers[s], readyState')
  /\ ev' = Ev("open", s, handlers[s], "", "")
  /\ UNCHANGED <<singleton, wsRef, mountedEffect, nEffects, nSockets, handlers,
                 wsVar, timer, bootAck, accountRefreshTrigger, dataVars>>
  /\ UNCHANGED viewVars

\* The closing handshake of socket s starts (no event is dispatched).
SocketClosing(s) ==
  /\ readyState[s] \in {"CONNECTING", "OPEN"}
  /\ readyState' = [readyState EXCEPT ![s] = "CLOSING"]
  /\ ev' = Ev("closing", s, handlers[s], "", "")
  /\ UNCHANGED <<singleton, wsRef, mountedEffect, nEffects, nSockets, handlers,
                 wsVar, timer, wireVars, uiVars, dataVars>>
  /\ UNCHANGED viewVars

\* The reconnect decision of handleClose.
ShouldReconnect_NormalOnly(code) == code # CLOSE_NORMAL
ShouldReconnect(code) == code # CLOSE_NORMAL /\ code # CLOSE_GOING_AWAY

\* handleClose of closure c for a close event with the given code.
handleClose_GiveUp(c, code) ==
  /\ wsConnected' = FALSE
  /\ singleton' = 0
  /\ wsRef' = IF wsRef = wsVar[c] THEN 0 ELSE wsRef
  /\ timer' = IF ShouldReconnect(code) /\ nSockets < 2
                THEN [timer EXCEPT ![c] = RECONNECT_DELAY_MS]
                ELSE timer
handleClose(c, code) ==
  /\ wsConnected' = FALSE
  /\ singleton' = 0
  /\ wsRef' = IF wsRef = wsVar[c] THEN 0 ELSE wsRef
  /\ timer' = IF ShouldReconnect(code)
                THEN [timer EXCEPT ![c] = RECONNECT_DELAY_MS]
                ELSE timer

\* Socket s closes with a close code and dispatches `close`.
SocketClose(s, code) ==
  /\ readyState[s] \in {"CONNECTING", "OPEN", "CLOSING"}
  /\ readyState' = [readyState EXCEPT ![s] = "CLOSED"]
  /\ handleClose(handlers[s], code)
  /\ sent' = [sent EXCEPT ![s] = <<>>]
  /\ bootAck' = [bootAck EXCEPT ![s] = FALSE]
  /\ ev' = Ev("close", s, handlers[s], ToString(code), "")
  /\ UNCHANGED <<mountedEffect, nEffects, nSockets, handlers, wsVar,
                 wsError, accountRefreshTrigger, dataVars>>
  /\ UNCHANGED viewVars

\* handleError.
handleError ==
  /\ wsConnected' = FALSE

\* Socket s dispatches `error` (a close event may or may not follow).
SocketError(s) ==
  /\ readyState[s] \in {"CONNECTING", "OPEN", "CLOSING"}
  /\ handleError
  /\ ev' = Ev("error", s, handlers[s], "", "")
  /\ UNCHANGED <<connVars, wireVars, wsError, accountRefreshTrigger, dataVars>>
  /\ UNCHANGED viewVars

\* ------------------------------------------------- outbound operations
\* The guard shared by placeOrder, switchUser and switchAccount.
NotConnected_NullOnly == wsRef = 0
NotConnected == IF wsRef = 0 THEN TRUE ELSE readyState[wsRef] # "OPEN"

\* placeOrder / switchUser / switchAccount: type is the message type sent.
\* The send sits in a try block whose catch reports the failure.
SendCommand(op, type) ==
  /\ mountedEffect # 0
  /\ IF NotConnected
       THEN /\ sent' = sent
            /\ ev' = Ev(op, wsRef, mountedEffect, type, "not_connected")
       ELSE IF SendThrows(readyState, wsRef)
       THEN /\ sent' = sent
            /\ ev' = Ev(op, wsRef, mountedEffect, type, "send_failed")
       ELSE /\ Room(wsRef)
            /\ sent' = SendLog(sent, readyState, wsRef, type)
            /\ ev' = Ev(op, wsRef, mountedEffect, type, "sent")
  /\ UNCHANGED <<connVars, bootAck, uiVars, dataVars>>
  /\ UNCHANGED viewVars

placeOrder == SendCommand("placeOrder", "place_order")
switchUser == SendCommand("switchUser", "switch_user")
switchAccount == SendCommand("switchAccount", "switch_account")

\* The main content is rendered (App returns early otherwise).
Rendered == Truthy(user) /\ Truthy(account) /\ Truthy(overview)

\* The guard of refreshData and handleAccountUpdated:
\* wsRef.current && wsRef.current.readyState === WebSocket.OPEN.
IsOpen_AnySocket(ref) == ref # 0
IsOpen(ref) == IF ref = 0 THEN FALSE ELSE readyState[ref] = "OPEN"

\* if (guard) wsRef.current.send(get_snapshot), with no try block around it.
SendSnapshotRequest(op) ==
  /\ Room(wsRef)
  /\ IF IsOpen(wsRef)
       THEN IF SendThrows(readyState, wsRef)
              THEN /\ sent' = sent
                   /\ ev' = Ev(op, wsRef, mountedEffect, "get_snapshot", "threw")
              ELSE /\ sent' = SendLog(sent, readyState, wsRef, "get_snapshot")
                   /\ ev' = Ev(op, wsRef, mountedEffect, "get_snapshot",
                               IF readyState[wsRef] = "OPEN" THEN "sent" ELSE "discarded")
       ELSE /\ sent' = sent
            /\ ev' = Ev(op, wsRef, mountedEffect, "get_snapshot", "noop")

\* refreshData, the onRefreshData callback handed to the views.
refreshData ==
  /\ mountedEffect # 0
  /\ Rendered
  /\ SendSnapshotRequest("refreshData")
  /\ UNCHANGED <<connVars, bootAck, uiVars, dataVars>>
  /\ UNCHANGED viewVars

\* handleAccountUpdated (Sidebar callback, available in every render).
handleAccountUpdated ==
  /\ mountedEffect # 0
  /\ accountRefreshTrigger < MaxTrigger
  /\ accountRefreshTrigger' = accountRefreshTrigger + 1
  /\ SendSnapshotRequest("handleAccountUpdated")
  /\ UNCHANGED <<connVars, bootAck, wsConnected, wsError, dataVars>>
  /\ UNCHANGED viewVars

\* ------------------------------------------------------ inbound messages
SnapshotTypes == {"snapshot", "snapshot_full", "snapshot_fast"}

\* The statement of handleMessage's try block that throws for frame e, taken
\* in program order; "" when none does.  Every throwing statement precedes
\* the first state update of its branch.
ThrowsAt(e) ==
  CASE e.json = "invalid" -> "JSON.parse"
    [] e.json = "null" -> "msg.type"
    [] e.type \in SnapshotTypes /\ IsNumber(e.trades) -> "msg.trades?.slice"
    [] e.type \in SnapshotTypes /\ IsNumber(e.positions) -> "msg.positions?.slice"
    [] e.type = "user_switched" /\ Nullish(e.user) -> "msg.user.username"
    [] e.type = "account_switched" /\ Nullish(e.account) -> "msg.account.name"
    [] e.type = "error" /\ Truthy(e.message) /\ IsNumber(e.message) -> "msg.message.includes"
    [] OTHER -> ""

\* The get_snapshot request of the bootstrap_ok branch is sent.
BootstrapRefresh(e) == Truthy(e.account)

\* The frame makes handleMessage call ws.send.
Replies_BootstrapOnly(e) ==
  e.type = "bootstrap_ok" /\ BootstrapRefresh(e)
Replies(e) ==
  \/ e.type = "bootstrap_ok" /\ BootstrapRefresh(e)
  \/ e.type \in {"order_filled", "order_pending"}

\* The snapshot branch of handleMessage.
applySnapshot_ClearCurves(e) ==
  /\ overview' = e.overview
  /\ positions' = e.positions
  /\ orders' = e.orders
  /\ trades' = OrElse(e.trades, "[]")
  /\ aiDecisions' = OrElse(e.ai_decisions, "[]")
  /\ allAssetCurves' = OrElse(e.all_asset_curves, "[]")
  /\ UNCHANGED <<user, account, wsError>>
applySnapshot(e) ==
  /\ overview' = e.overview
  /\ positions' = e.positions
  /\ orders' = e.orders
  /\ trades' = OrElse(e.trades, "[]")
  /\ aiDecisions' = OrElse(e.ai_decisions, "[]")
  /\ allAssetCurves' = IF Truthy(e.all_asset_curves)
                         THEN e.all_asset_curves ELSE allAssetCurves
  /\ UNCHANGED <<user, account, wsError>>

\* The bootstrap_ok branch of handleMessage, up to the send.
applyBootstrapOk(e) ==
  /\ user' = IF Truthy(e.user) THEN e.user ELSE user
  /\ account' = IF Truthy(e.account) THEN e.account ELSE "null"
  /\ wsError' = IF Truthy(e.account) THEN wsError ELSE "No account found"
  /\ UNCHANGED <<overview, positions, orders, trades, aiDecisions, allAssetCurves>>

\* The user_switched branch of handleMessage: the toast reads
\* msg.user.username before setUser runs.
applyUserSwitched_SetFirst(e) ==
  /\ user' = e.user
  /\ UNCHANGED <<account, overview, positions, orders, trades, aiDecisions,
                 allAssetCurves, wsError>>
applyUserSwitched(e) ==
  /\ user' = IF Nullish(e.user) THEN user ELSE e.user
  /\ UNCHANGED <<account, overview, positions, orders, trades, aiDecisions,
                 allAssetCurves, wsError>>

\* The trades branch of handleMessage.
applyTrades_AndOrders(e) ==
  /\ trades' = OrElse(e.trades, "[]")
  /\ orders' = "[]"
  /\ UNCHANGED <<user, account, overview, positions, aiDecisions,
                 allAssetCurves, wsError>>
applyTrades(e) ==
  /\ trades' = OrElse(e.trades, "[]")
  /\ UNCHANGED <<user, account, overview, positions, orders, aiDecisions,
                 allAssetCurves, wsError>>

\* handleMessage for frame e, without the sends.
applyFrame(e) ==
  CASE ThrowsAt(e) # "" /\ ~(e.type = "user_switched" /\ e.json = "object") ->
         UNCHANGED <<dataVars, wsError>>
    [] ThrowsAt(e) = "" /\ e.type = "bootstrap_ok" -> applyBootstrapOk(e)
    [] ThrowsAt(e) = "" /\ e.type \in SnapshotTypes -> applySnapshot(e)
    [] ThrowsAt(e) = "" /\ e.type = "trades" -> applyTrades(e)
    [] e.type = "user_switched" /\ e.json = "object" -> applyUserSwitched(e)
    [] ThrowsAt(e) = "" /\ e.type = "account_switched" ->
         /\ account' = e.account
         /\ UNCHANGED <<user, overview, positions, orders, trades, aiDecisions,
                        allAssetCurves, wsError>>
    [] ThrowsAt(e) = "" /\ e.type = "error" ->
         /\ wsError' = IF e.message = "No account found"
                         THEN "No account found" ELSE wsError
         /\ UNCHANGED dataVars
    [] OTHER -> UNCHANGED <<dataVars, wsError>>

\* handleMessage of closure c for frame e received on socket s.
handleMessage(c, s, e) ==
  /\ applyFrame(e)
  /\ IF ThrowsAt(e) = "" /\ Replies(e)
       THEN /\ Room(wsVar[c])
            /\ sent' = SendLog(sent, readyState, wsVar[c], "get_snapshot")
       ELSE sent' = sent
  /\ bootAck' = IF ThrowsAt(e) = "" /\ e.type = "bootstrap_ok" /\ Truthy(e.account)
                  THEN [bootAck EXCEPT ![s] = TRUE] ELSE bootAck
  /\ ev' = EvM("message", s, c, e.type,
               IF ThrowsAt(e) # "" THEN "dropped"
               ELSE IF Replies(e) /\ SendThrows(readyState, wsVar[c]) THEN "dropped"
               ELSE "handled", e)

\* Socket s dispatches `message` with frame e (only an OPEN socket does).
SocketMessage(s, e) ==
  /\ readyState[s] = "OPEN"
  /\ handleMessage(handlers[s], s, e)
  /\ UNCHANGED <<connVars, wsConnected, accountRefreshTrigger>>
  /\ UNCHANGED viewVars

\* ------------------------------------------------------------- frames
Obj(type, u, a, o, p, r, t, d, c, m) == Frame("object", type, u, a, o, p, r, t, d, c, m)

\* The frames of the connection protocol.
ProtoFrames ==
  { Obj("bootstrap_ok", "u1", "a1", U, U, U, U, U, U, U),
    Obj("bootstrap_ok", "u1", U, U, U, U, U, U, U, U),
    Obj("snapshot", U, U, "o1", "p1", "r1", "t1", "d1", U, U),
    Obj("order_filled", U, U, U, U, U, U, U, U, U),
    Obj("order_pending", U, U, U, U, U, U, U, U, U) }

\* ------------------------------------------------------- specifications
\* The connection lifecycle: effect runs, socket events, reconnect timers.
\* Outbound operations and inbound frames leave the connection variables
\* alone and are exercised by SpecWire and SpecData below.
Next ==
  \/ \E throws \in BOOLEAN : Mount(throws)
  \/ Unmount
  \/ \E c \in Effects, throws \in BOOLEAN : TimerFire(c, throws)
  \/ \E s \in Sockets : SocketOpen(s)
  \/ \E s \in Sockets : SocketClosing(s)
  \/ \E s \in Sockets, code \in CloseCodes : SocketClose(s, code)
  \/ \E s \in Sockets : SocketError(s)

Spec == Init /\ [][Next]_vars

\* Browser timers that stay pending fire eventually.
LiveSpec == Spec /\ \A c \in Effects : WF_vars(\E throws \in BOOLEAN : TimerFire(c, throws))

\* The wire protocol of one mounted App: its connection with every
\* reconnection, the outbound operations and the frames of the connection
\* protocol.
NextWire ==
  \/ \E throws \in BOOLEAN : Mount(throws)
  \/ \E c \in Effects, throws \in BOOLEAN : TimerFire(c, throws)
  \/ \E s \in Sockets : SocketOpen(s)
  \/ \E s \in Sockets : SocketClosing(s)
  \/ \E s \in Sockets, code \in CloseCodes : SocketClose(s, code)
  \/ \E s \in Sockets : SocketError(s)
  \/ handleAccountUpdated
  \/ refreshData
  \/ placeOrder
  \/ switchUser
  \/ switchAccount
  \/ \E s \in Sockets, e \in ProtoFrames : SocketMessage(s, e)

SpecWire == Init /\ [][NextWire]_vars

\* The frames seen by the snapshot reconciler: every snapshot type, frames
\* that name all slices, none, or all but one, every shape of the curves
\* field, the other message kinds, and frames that do not parse or whose
\* handling throws.
CurveValues == {U, "null", "[]", "c1", "c2"}
\* Which slices a snapshot frame names: all, none, or all but one.
SliceSets ==
  {{"o", "p", "r", "t", "d"}, {}} \cup {{"o", "p", "r", "t", "d"} \ {x} : x \in {"o", "p", "r", "t", "d"}}
Slice(named, x, v) == IF x \in named THEN v ELSE U
SnapshotFrames ==
  { Obj("snapshot", U, U, Slice(n, "o", "o1"), Slice(n, "p", "p1"), Slice(n, "r", "r1"),
        Slice(n, "t", "t1"), Slice(n, "d", "d1"), c, U) :
      n \in SliceSets, c \in CurveValues }
  \cup { Obj(ty, U, U, "o2", "p2", "r2", "t2", "d2", c, U) :
      ty \in {"snapshot_full", "snapshot_fast"}, c \in CurveValues }
OtherFrames ==
  { Obj("bootstrap_ok", "u1", "a1", U, U, U, U, U, U, U),
    Obj("bootstrap_ok", U, U, U, U, U, U, U, U, U),
    Obj("trades", U, U, U, U, U, "t2", U, U, U),
    Obj("trades", U, U, U, U, U, U, U, U, U),
    Obj("order_filled", U, U, U, U, U, U, U, U, U),
    Obj("order_pending", U, U, U, U, U, U, U, U, U),
    Obj("user_switched", "u2", U, U, U, U, U, U, U, U),
    Obj("account_switched", U, "a2", U, U, U, U, U, U, U),
    Obj("error", U, U, U, U, U, U, U, U, "No account found"),
    Obj("error", U, U, U, U, U, U, U, U, "boom"),
    Obj("pong", U, U, U, U, U, U, U, U, U) }
BadFrames ==
  { Frame("invalid", U, U, U, U, U, U, U, U, U, U),
    Frame("null", U, U, U, U, U, U, U, U, U, U),
    Obj("snapshot", U, U, "o2", "p2", "r2", "7", "d2", "c2", U),
    Obj("snapshot_full", U, U, "o2", "7", "r2", "t2", "d2", "c2", U),
    Obj("user_switched", U, U, U, U, U, U, U, U, U),
    Obj("account_switched", U, "null", U, U, U, U, U, U, U),
    Obj("error", U, U, U, U, U, U, U, U, "7") }
DataFrames == SnapshotFrames \cup OtherFrames \cup BadFrames

\* The snapshot reconciler on one connection of one mounted App, fed every
\* frame of DataFrames in every order.
NextData ==
  \/ Mount(FALSE)
  \/ \E s \in Sockets : SocketOpen(s)
  \/ \E s \in Sockets, e \in DataFrames : SocketMessage(s, e)

SpecData == Init /\ [][NextData]_vars

\* ===================================================================
\* Part 2: the replay clock controller of ComprehensiveView
\* (src/frontend/app/components/portfolio/ComprehensiveView.tsx, lines
\* 109-286) and the replay clock of the server behind src/lib/api.
\*
\* One run of the poll effect creates one closure with its own `cancelled`;
\* the component instance (its state and refs) survives the cleanup/re-run
\* pair, as under React.StrictMode.  The code awaiting a request resumes in
\* a later step than the one in which the server answers it; a request of
\* handleStart, handleStop, handleAdvance or a tick reaches the server in
\* the step that issues it.  One call of each handler runs at a time.
\* ===================================================================

\* Calling the onRefreshData prop, which is App's refreshData, or not.
CallRefresh(does) ==
  IF does
    THEN /\ SendSnapshotRequest("refreshData")
         /\ UNCHANGED <<connVars, bootAck, uiVars, dataVars>>
    ELSE UNCHANGED appVars

\* replayState?.active ?? false
isActive_NullIsActive == replayState.null \/ replayState.active
isActive == replayState.active

\* ------------------------------------------- the server (spec.md 3, 6)
\* getReplayState(): the clock as the server holds it.
getReplayState == IF srv.active THEN srv ELSE Inactive
\* The server accepts a start request for this window.
WindowAccepted(a, b) == a # NaN /\ b # NaN /\ a < b
\* startReplay(a, b, speed, days): the clock is created at the start of the
\* window; a server that does not report trading_interval_days omits it
\* from the state.
startReplay(a, b, speed, days, reports) ==
  RS(FALSE, TRUE, a, b, a, speed, IF reports THEN days ELSE 0)
\* stopReplay(): the clock is destroyed.
stopReplay == Inactive
\* progress of a clock state, in percent of its window.
progress(state) ==
  ((state.current_date - state.start_date) * 100)
    \div (state.end_date - state.start_date)
\* advanceReplay(seconds): the clock moves forward; reaching the end of the
\* window completes the replay.
advanceReplay(seconds) ==
  IF srv.current_date + seconds >= srv.end_date
    THEN Inactive
    ELSE [srv EXCEPT !.current_date = @ + seconds]

\* ------------------------------------------ the auto-advance effect
\* (currentState as any).trading_interval_days || 1
TradingIntervalDays(state) ==
  IF state.trading_interval_days = 0 THEN 1 ELSE state.trading_interval_days
\* tradingIntervalDays * 86400
TradingIntervalSeconds(state) == TradingIntervalDays(state) * SECONDS_PER_DAY
\* (BASE_MS_PER_DAY * tradingIntervalDays) / currentState.speed_multiplier
speedMs(days, speed) == (BASE_MS_PER_DAY * days) \div speed

\* The dependency list: replayState?.active (undefined for null) and
\* replayState?.state?.speed_multiplier.
AutoDeps(state) == <<state.null, state.active, state.speed_multiplier>>

\* A run of the effect with this replayState: the intervals it arms.
AutoRun(state) ==
  IF state.active
    THEN <<Interval(speedMs(TradingIntervalDays(state), state.speed_multiplier),
                    TradingIntervalSeconds(state))>>
    ELSE <<>>
\* The cleanup of the last run: clearInterval of the interval it armed.
AutoCleanup_KeepsInterval(timers) == timers
AutoCleanup(timers) ==
  IF timers = <<>> THEN <<>> ELSE SubSeq(timers, 1, Len(timers) - 1)

\* setReplayState(state): React renders and, when a dependency changed,
\* cleans the last run of the effect up and runs it again, before any
\* timer or response is handled.  Nothing runs for a view whose effects
\* are cleaned up.
AutoEffect(state) ==
  autoTimers' = IF viewEffect = 0 \/ AutoDeps(state) = AutoDeps(replayState)
                  THEN autoTimers
                  ELSE AutoCleanup(autoTimers) \o AutoRun(state)

\* ------------------------------------------------- the poll effect
\* The early return of runFetch; canc is `cancelled` at the call.
RunFetchReturns_IgnoreInFlight(k, canc) == canc[k]
RunFetchReturns(k, canc) == canc[k] \/ inFlightRef

\* runFetch of run k up to its await.
runFetch(k, canc) ==
  IF RunFetchReturns(k, canc)
    THEN UNCHANGED <<inFlightRef, pollReq>>
    ELSE /\ inFlightRef' = TRUE
         /\ pollReq' = [pollReq EXCEPT ![k] = Req("sent", NullState)]

\* scheduleNext of run k.
scheduleNext(k, delayMs) ==
  IF cancelled[k]
    THEN UNCHANGED <<pollTimeoutRef, pollTimer>>
    ELSE /\ pollTimeoutRef' = k
         /\ pollTimer' = [pollTimer EXCEPT ![k] = delayMs]

\* The delay runFetch passes to scheduleNext.
PollDelay_NoBackoff(ok) == CONFIG_normalMs
PollDelay(ok) == IF ok THEN CONFIG_normalMs ELSE CONFIG_backoffMs

\* if (state.active) onRefreshDataRef.current()
PollRefreshes_Always(state) == TRUE
PollRefreshes(state) == state.active

\* The poll effect runs (the view is shown by a rendered App).
MountView ==
  /\ mountedEffect # 0 /\ Rendered
  /\ viewEffect = 0
  /\ nViewEffects < MaxViewMounts
  /\ LET k == nViewEffects + 1 IN
       /\ nViewEffects' = k
       /\ viewEffect' = k
       /\ cancelled' = [cancelled EXCEPT ![k] = FALSE]
       /\ runFetch(k, cancelled')
       /\ rev' = Rev("mountView", k,
                     IF RunFetchReturns(k, cancelled') THEN "skipped" ELSE "fetch",
                     0, 0)
  /\ UNCHANGED <<pollTimeoutRef, pollTimer, renderGen, onRefreshDataRef,
                 replayState, loading, showReplayControls, startOp, advanceOp, srv>>
  /\ UNCHANGED appVars
  /\ UNCHANGED ctlVars
  /\ autoTimers' = autoTimers \o AutoRun(replayState)
  /\ UNCHANGED chartVars

\* The cleanup of the poll effect.
UnmountView ==
  /\ viewEffect # 0
  /\ cancelled' = [cancelled EXCEPT ![viewEffect] = TRUE]
  /\ pollTimer' = IF pollTimeoutRef # 0
                    THEN [pollTimer EXCEPT ![pollTimeoutRef] = 0]
                    ELSE pollTimer
  /\ viewEffect' = 0
  /\ rev' = Rev("unmountView", viewEffect, "", 0, 0)
  /\ UNCHANGED <<nViewEffects, pollTimeoutRef, inFlightRef, pollReq, renderGen,
                 onRefreshDataRef, replayState, loading, showReplayControls,
                 startOp, advanceOp, srv>>
  /\ UNCHANGED appVars
  /\ UNCHANGED ctlVars
  /\ autoTimers' = AutoCleanup(autoTimers)
  /\ UNCHANGED chartVars

\* The poll timer of run k fires: pollTimeoutRef.current = null; runFetch().
PollTimerFire(k) ==
  /\ pollTimer[k] # 0
  /\ pollTimer' = [pollTimer EXCEPT ![k] = 0]
  /\ pollTimeoutRef' = 0
  /\ runFetch(k, cancelled)
  /\ rev' = Rev("pollTimer", k,
                IF RunFetchReturns(k, cancelled) THEN "skipped" ELSE "fetch",
                0, 0)
  /\ UNCHANGED <<viewEffect, nViewEffects, cancelled, renderGen, onRefreshDataRef,
                 replayState, loading, showReplayControls, startOp, advanceOp, srv>>
  /\ UNCHANGED appVars
  /\ UNCHANGED <<ctlVars, autoTimers>>
  /\ UNCHANGED chartVars

\* The server answers the getReplayState of run k, or the request fails.
ServePoll(k, up) ==
  /\ pollReq[k].net = "sent"
  /\ pollReq' = [pollReq EXCEPT ![k] =
                   IF up THEN Req("ok", getReplayState) ELSE Req("fail", NullState)]
  /\ rev' = Rev("servePoll", 0, "", 0, 0)
  /\ UNCHANGED <<viewEffect, nViewEffects, cancelled, pollTimeoutRef, pollTimer,
                 inFlightRef, renderGen, onRefreshDataRef, replayState, loading,
                 showReplayControls, startOp, advanceOp, srv>>
  /\ UNCHANGED appVars
  /\ UNCHANGED <<ctlVars, autoTimers>>
  /\ UNCHANGED chartVars

\* runFetch of run k after its await: the try, catch and finally blocks.
PollDone(k) ==
  /\ pollReq[k].net \in {"ok", "fail"}
  /\ pollReq' = [pollReq EXCEPT ![k] = NoReq]
  /\ inFlightRef' = FALSE
  /\ LET ok == pollReq[k].net = "ok"
         state == pollReq[k].resp
     IN IF cancelled[k]
          THEN /\ UNCHANGED <<pollTimeoutRef, pollTimer, replayState>>
               /\ CallRefresh(FALSE)
               /\ rev' = Rev("pollDone", k, "cancelled", 0, 0)
          ELSE /\ replayState' = IF ok THEN state ELSE replayState
               /\ CallRefresh(ok /\ PollRefreshes(state))
               /\ scheduleNext(k, PollDelay(ok))
               /\ rev' = Rev("pollDone", k, IF ok THEN "ok" ELSE "failed",
                             IF ok /\ PollRefreshes(state) THEN 1 ELSE 0,
                             IF ok /\ PollRefreshes(state) THEN onRefreshDataRef ELSE 0)
  /\ UNCHANGED <<viewEffect, nViewEffects, cancelled, renderGen, onRefreshDataRef,
                 loading, showReplayControls, startOp, advanceOp, srv>>
  /\ UNCHANGED ctlVars
  /\ AutoEffect(replayState')
  /\ UNCHANGED chartVars

\* App renders again and hands the view a new onRefreshData; the view's
\* render stores it in onRefreshDataRef.
Rerender ==
  /\ viewEffect # 0
  /\ renderGen < MaxRenders
  /\ renderGen' = renderGen + 1
  /\ onRefreshDataRef' = renderGen + 1
  /\ rev' = Rev("render", viewEffect, "", 0, 0)
  /\ UNCHANGED <<pollVars, replayState, loading, showReplayControls, startOp,
                 advanceOp, srv>>
  /\ UNCHANGED appVars
  /\ UNCHANGED <<ctlVars, autoTimers>>
  /\ UNCHANGED chartVars

\* ------------------------------------------------- the controls panel
\* "Start Replay / Backtest" (shown when !isActive && !showReplayControls).
openControls ==
  /\ viewEffect # 0
  /\ ~isActive /\ ~showReplayControls
  /\ showReplayControls' = TRUE
  /\ rev' = Rev("openControls", viewEffect, "", 0, 0)
  /\ UNCHANGED <<pollVars, renderGen, onRefreshDataRef, replayState, loading,
                 startOp, advanceOp, srv>>
  /\ UNCHANGED appVars
  /\ UNCHANGED <<ctlVars, autoTimers>>
  /\ UNCHANGED chartVars

\* The close button of the panel.
closeControls ==
  /\ viewEffect # 0
  /\ ~isActive /\ showReplayControls
  /\ showReplayControls' = FALSE
  /\ rev' = Rev("closeControls", viewEffect, "", 0, 0)
  /\ UNCHANGED <<pollVars, renderGen, onRefreshDataRef, replayState, loading,
                 startOp, advanceOp, srv>>
  /\ UNCHANGED appVars
  /\ UNCHANGED <<ctlVars, autoTimers>>
  /\ UNCHANGED chartVars

\* ------------------------------------------------------- handleStart
\* The two validation checks of handleStart: "" when both pass.
StartRejected(startDate, endDate) ==
  IF startDate = "" \/ endDate = "" THEN "Please select start and end dates"
  ELSE IF DateGe(NewDate(startDate), NewDate(endDate))
    THEN "Start date must be before end date"
  ELSE ""

\* handleStart up to its first await, with the dates the inputs hold, and
\* the server's answer to the startReplay it issues: success,
\* {success: false}, or a failed request.  The default-dates effect fills
\* both inputs whenever both are empty.  `reports` says whether the server
\* reports trading_interval_days in its clock state.
handleStart(startDate, endDate, answer, reports) ==
  /\ viewEffect # 0
  /\ ~(startDate = "" /\ endDate = "")
  /\ showReplayControls /\ ~isActive
  /\ ~loading
  /\ startOp.pc = "idle"
  /\ IF StartRejected(startDate, endDate) # ""
       THEN /\ answer = "fail"
            /\ UNCHANGED <<loading, startOp, srv>>
            /\ rev' = Rev("handleStart", viewEffect, "rejected", 0, 0)
       ELSE /\ answer = "ok" =>
                 WindowAccepted(StartDateTime(startDate), EndDateTime(endDate))
            /\ loading' = TRUE
            /\ startOp' = Op("startReplay", answer, NullState,
                             StartDateTime(startDate), EndDateTime(endDate))
            /\ srv' = IF answer = "ok"
                        THEN startReplay(StartDateTime(startDate),
                                         EndDateTime(endDate), speedMultiplier,
                                         tradingIntervalDays, reports)
                        ELSE srv
            /\ rev' = Rev("handleStart", viewEffect, "startReplay", 0, 0)
  /\ UNCHANGED <<pollVars, renderGen, onRefreshDataRef, replayState,
                 showReplayControls, advanceOp>>
  /\ UNCHANGED appVars
  /\ UNCHANGED <<ctlVars, autoTimers>>
  /\ UNCHANGED chartVars

\* handleStart after `await startReplay`: success arms the settle timer,
\* anything else is reported; finally setLoading(false).
StartReplayDone ==
  /\ startOp.pc = "startReplay"
  /\ loading' = FALSE
  /\ startOp' = IF startOp.net = "ok"
                  THEN Op("settle", "none", NullState, SETTLE_MS, 0)
                  ELSE Idle
  /\ rev' = Rev("startReplayDone", 0, startOp.net, 0, 0)
  /\ UNCHANGED <<pollVars, renderGen, onRefreshDataRef, replayState,
                 showReplayControls, advanceOp, srv>>
  /\ UNCHANGED appVars
  /\ UNCHANGED <<ctlVars, autoTimers>>
  /\ UNCHANGED chartVars

\* The settle timer fires and its callback calls getReplayState, which the
\* server answers unless the request fails.
StartSettleFire(up) ==
  /\ startOp.pc = "settle"
  /\ startOp' = IF up THEN Op("getReplayState", "ok", getReplayState, 0, 0)
                      ELSE Op("getReplayState", "fail", NullState, 0, 0)
  /\ rev' = Rev("startSettle", 0, "fetch", 0, 0)
  /\ UNCHANGED <<pollVars, renderGen, onRefreshDataRef, replayState, loading,
                 showReplayControls, advanceOp, srv>>
  /\ UNCHANGED appVars
  /\ UNCHANGED <<ctlVars, autoTimers>>
  /\ UNCHANGED chartVars

\* The settle callback after `await getReplayState`; it calls the
\* onRefreshData of the render in which handleStart was created.
StartStateDone_KeepPanel ==
  /\ startOp.pc = "getReplayState"
  /\ startOp' = Idle
  /\ IF startOp.net = "ok"
       THEN /\ replayState' = startOp.resp
            /\ UNCHANGED showReplayControls
            /\ CallRefresh(TRUE)
            /\ rev' = Rev("startStateDone", 0, "ok", 1, 0)
       ELSE /\ UNCHANGED <<replayState, showReplayControls>>
            /\ CallRefresh(FALSE)
            /\ rev' = Rev("startStateDone", 0, "failed", 0, 0)
  /\ UNCHANGED <<pollVars, renderGen, onRefreshDataRef, loading, advanceOp, srv>>
  /\ UNCHANGED ctlVars
  /\ AutoEffect(replayState')
  /\ UNCHANGED chartVars
StartStateDone ==
  /\ startOp.pc = "getReplayState"
  /\ startOp' = Idle
  /\ IF startOp.net = "ok"
       THEN /\ replayState' = startOp.resp
            /\ showReplayControls' = FALSE
            /\ CallRefresh(TRUE)
            /\ rev' = Rev("startStateDone", 0, "ok", 1, 0)
       ELSE /\ UNCHANGED <<replayState, showReplayControls>>
            /\ CallRefresh(FALSE)
            /\ rev' = Rev("startStateDone", 0, "failed", 0, 0)
  /\ UNCHANGED <<pollVars, renderGen, onRefreshDataRef, loading, advanceOp, srv>>
  /\ UNCHANGED ctlVars
  /\ AutoEffect(replayState')
  /\ UNCHANGED chartVars

\* ----------------------------------------------------- handleAdvance
\* handleAdvance(seconds) up to its first await, and the server's answer to
\* the advanceReplay it issues (a failure when the request fails or no
\* replay is running).  The two buttons pass one and seven trading
\* intervals of the local clock state, whose trading_interval_days
\* defaults to 1.
handleAdvance(intervals, up) ==
  /\ viewEffect # 0
  /\ isActive
  /\ advanceOp.pc = "idle"
  /\ advanceOp' = Op("advanceReplay", IF up /\ srv.active THEN "ok" ELSE "fail",
                     NullState, 0, 0)
  /\ srv' = IF up /\ srv.active
              THEN advanceReplay(intervals * TradingIntervalSeconds(replayState))
              ELSE srv
  /\ rev' = Rev("handleAdvance", viewEffect, "advanceReplay", 0, 0)
  /\ UNCHANGED <<pollVars, renderGen, onRefreshDataRef, replayState, loading,
                 showReplayControls, startOp>>
  /\ UNCHANGED appVars
  /\ UNCHANGED <<ctlVars, autoTimers>>
  /\ UNCHANGED chartVars

\* handleAdvance after `await advanceReplay`: it calls getReplayState, which
\* the server answers unless the request fails.
AdvanceDone(up) ==
  /\ advanceOp.pc = "advanceReplay"
  /\ advanceOp' = IF advanceOp.net # "ok" THEN Idle
                  ELSE IF up THEN Op("getReplayState", "ok", getReplayState, 0, 0)
                  ELSE Op("getReplayState", "fail", NullState, 0, 0)
  /\ advanceOp.net # "ok" => up
  /\ rev' = Rev("advanceDone", 0, advanceOp.net, 0, 0)
  /\ UNCHANGED <<pollVars, renderGen, onRefreshDataRef, replayState, loading,
                 showReplayControls, startOp, srv>>
  /\ UNCHANGED appVars
  /\ UNCHANGED <<ctlVars, autoTimers>>
  /\ UNCHANGED chartVars

\* handleAdvance after `await getReplayState`: setReplayState and the
\* delayed refresh.
AdvanceStateDone ==
  /\ advanceOp.pc = "getReplayState"
  /\ replayState' = IF advanceOp.net = "ok" THEN advanceOp.resp ELSE replayState
  /\ advanceOp' = IF advanceOp.net = "ok"
                    THEN Op("refreshTimer", "none", NullState, SETTLE_MS, 0)
                    ELSE Idle
  /\ rev' = Rev("advanceStateDone", 0, advanceOp.net, 0, 0)
  /\ UNCHANGED <<pollVars, renderGen, onRefreshDataRef, loading,
                 showReplayControls, startOp, srv>>
  /\ UNCHANGED appVars
  /\ UNCHANGED ctlVars
  /\ AutoEffect(replayState')
  /\ UNCHANGED chartVars

\* The delayed refresh of handleAdvance fires.
AdvanceRefreshFire ==
  /\ advanceOp.pc = "refreshTimer"
  /\ advanceOp' = Idle
  /\ CallRefresh(TRUE)
  /\ rev' = Rev("advanceRefresh", 0, "", 1, 0)
  /\ UNCHANGED <<pollVars, renderGen, onRefreshDataRef, replayState, loading,
                 showReplayControls, startOp, srv>>
  /\ UNCHANGED <<ctlVars, autoTimers>>
  /\ UNCHANGED chartVars

\* ------------------------------------------------- the panel's inputs
\* The speed input: setSpeedMultiplier(parseFloat(e.target.value) || 1.0).
setSpeedMultiplier(v) ==
  /\ viewEffect # 0
  /\ showReplayControls /\ ~isActive
  /\ v # speedMultiplier
  /\ speedMultiplier' = v
  /\ rev' = Rev("setSpeedMultiplier", viewEffect, "", 0, 0)
  /\ UNCHANGED <<pollVars, renderGen, onRefreshDataRef, replayState, loading,
                 showReplayControls, startOp, advanceOp, srv>>
  /\ UNCHANGED <<tradingIntervalDays, stopOp, tickOp, autoTimers>>
  /\ UNCHANGED appVars
  /\ UNCHANGED chartVars

\* The interval select: setTradingIntervalDays(parseInt(e.target.value)).
setTradingIntervalDays(v) ==
  /\ viewEffect # 0
  /\ showReplayControls /\ ~isActive
  /\ v # tradingIntervalDays
  /\ tradingIntervalDays' = v
  /\ rev' = Rev("setTradingIntervalDays", viewEffect, "", 0, 0)
  /\ UNCHANGED <<pollVars, renderGen, onRefreshDataRef, replayState, loading,
                 showReplayControls, startOp, advanceOp, srv>>
  /\ UNCHANGED <<speedMultiplier, stopOp, tickOp, autoTimers>>
  /\ UNCHANGED appVars
  /\ UNCHANGED chartVars

\* -------------------------------------------------------- handleStop
\* handleStop up to its await, and the server's answer to the stopReplay it
\* issues.  The Stop button belongs to the card of an active clock state.
handleStop(up) ==
  /\ viewEffect # 0
  /\ isActive
  /\ ~loading
  /\ stopOp.pc = "idle"
  /\ loading' = TRUE
  /\ stopOp' = Op("stopReplay", IF up THEN "ok" ELSE "fail", NullState, 0, 0)
  /\ srv' = IF up THEN stopReplay ELSE srv
  /\ rev' = Rev("handleStop", viewEffect, "stopReplay", 0, 0)
  /\ UNCHANGED <<pollVars, renderGen, onRefreshDataRef, replayState,
                 showReplayControls, startOp, advanceOp>>
  /\ UNCHANGED <<speedMultiplier, tradingIntervalDays, tickOp, autoTimers>>
  /\ UNCHANGED appVars
  /\ UNCHANGED chartVars

\* What handleStop does to replayState after a resolved stopReplay.
StopClears_Keeps(state) == state
StopClears(state) == NullState

\* handleStop after `await stopReplay`: success clears the local state and
\* arms the delayed refresh, a failure is reported; finally
\* setLoading(false).
StopDone_NoFinally ==
  /\ stopOp.pc = "stopReplay"
  /\ loading' = (stopOp.net # "ok")
  /\ replayState' = IF stopOp.net = "ok" THEN StopClears(replayState)
                                         ELSE replayState
  /\ stopOp' = IF stopOp.net = "ok"
                 THEN Op("refreshTimer", "none", NullState, SETTLE_MS, 0)
                 ELSE Idle
  /\ AutoEffect(replayState')
  /\ rev' = Rev("stopDone", 0, stopOp.net, 0, 0)
  /\ UNCHANGED <<pollVars, renderGen, onRefreshDataRef, showReplayControls,
                 startOp, advanceOp, srv>>
  /\ UNCHANGED <<speedMultiplier, tradingIntervalDays, tickOp>>
  /\ UNCHANGED appVars
  /\ UNCHANGED chartVars
StopDone ==
  /\ stopOp.pc = "stopReplay"
  /\ loading' = FALSE
  /\ replayState' = IF stopOp.net = "ok" THEN StopClears(replayState)
                                         ELSE replayState
  /\ stopOp' = IF stopOp.net = "ok"
                 THEN Op("refreshTimer", "none", NullState, SETTLE_MS, 0)
                 ELSE Idle
  /\ AutoEffect(replayState')
  /\ rev' = Rev("stopDone", 0, stopOp.net, 0, 0)
  /\ UNCHANGED <<pollVars, renderGen, onRefreshDataRef, showReplayControls,
                 startOp, advanceOp, srv>>
  /\ UNCHANGED <<speedMultiplier, tradingIntervalDays, tickOp>>
  /\ UNCHANGED appVars
  /\ UNCHANGED chartVars

\* The delayed refresh of handleStop fires.
StopRefreshFire ==
  /\ stopOp.pc = "refreshTimer"
  /\ stopOp' = Idle
  /\ CallRefresh(TRUE)
  /\ rev' = Rev("stopRefresh", 0, "", 1, 0)
  /\ UNCHANGED <<pollVars, renderGen, onRefreshDataRef, replayState, loading,
                 showReplayControls, startOp, advanceOp, srv>>
  /\ UNCHANGED <<speedMultiplier, tradingIntervalDays, tickOp, autoTimers>>
  /\ UNCHANGED chartVars

\* ------------------------------------------------ the auto-advance tick
\* The first free tick slot.
FreeTick(t) == tickOp[t].pc = "idle" /\ \A u \in Ticks : u < t => tickOp[u].pc # "idle"

\* Armed interval i fires: its callback runs up to `await advanceReplay`,
\* and the server answers the request (a failure when the request fails or
\* no replay is running).  The slot records the argument and the period.
AutoTick(i, t, up) ==
  /\ i \in 1..Len(autoTimers)
  /\ FreeTick(t)
  /\ tickOp' = [tickOp EXCEPT ![t] =
                  Op("advanceReplay", IF up /\ srv.active THEN "ok" ELSE "fail",
                     NullState, autoTimers[i].seconds, autoTimers[i].period)]
  /\ srv' = IF up /\ srv.active THEN advanceReplay(autoTimers[i].seconds) ELSE srv
  /\ rev' = Rev("autoTick", t, "advanceReplay", 0, 0)
  /\ UNCHANGED <<pollVars, renderGen, onRefreshDataRef, replayState, loading,
                 showReplayControls, startOp, advanceOp>>
  /\ UNCHANGED <<speedMultiplier, tradingIntervalDays, stopOp, autoTimers>>
  /\ UNCHANGED appVars
  /\ UNCHANGED chartVars

\* The callback after `await advanceReplay`: it calls getReplayState, which
\* the server answers unless the request fails; a failed advance is logged.
TickAdvanceDone(t, up) ==
  /\ tickOp[t].pc = "advanceReplay"
  /\ tickOp' = [tickOp EXCEPT ![t] =
                  IF tickOp[t].net # "ok" THEN Idle
                  ELSE IF up THEN Op("getReplayState", "ok", getReplayState, 0, 0)
                  ELSE Op("getReplayState", "fail", NullState, 0, 0)]
  /\ tickOp[t].net # "ok" => up
  /\ rev' = Rev("tickAdvanceDone", t, tickOp[t].net, 0, 0)
  /\ UNCHANGED <<pollVars, renderGen, onRefreshDataRef, replayState, loading,
                 showReplayControls, startOp, advanceOp, srv>>
  /\ UNCHANGED <<speedMultiplier, tradingIntervalDays, stopOp, autoTimers>>
  /\ UNCHANGED appVars
  /\ UNCHANGED chartVars

\* The callback after `await getReplayState`: setReplayState(newState) and
\* the delayed refresh; a failed request is logged.
TickStateDone_RefreshNow(t) ==
  /\ tickOp[t].pc = "getReplayState"
  /\ replayState' = IF tickOp[t].net = "ok" THEN tickOp[t].resp ELSE replayState
  /\ tickOp' = [tickOp EXCEPT ![t] = Idle]
  /\ AutoEffect(replayState')
  /\ CallRefresh(tickOp[t].net = "ok")
  /\ rev' = Rev("tickStateDone", t, tickOp[t].net,
                IF tickOp[t].net = "ok" THEN 1 ELSE 0, onRefreshDataRef)
  /\ UNCHANGED <<pollVars, renderGen, onRefreshDataRef, loading,
                 showReplayControls, startOp, advanceOp, srv>>
  /\ UNCHANGED <<speedMultiplier, tradingIntervalDays, stopOp>>
  /\ UNCHANGED chartVars
TickStateDone(t) ==
  /\ tickOp[t].pc = "getReplayState"
  /\ replayState' = IF tickOp[t].net = "ok" THEN tickOp[t].resp ELSE replayState
  /\ tickOp' = [tickOp EXCEPT ![t] =
                  IF tickOp[t].net = "ok"
                    THEN Op("refreshTimer", "none", NullState, SETTLE_MS, 0)
                    ELSE Idle]
  /\ AutoEffect(replayState')
  /\ rev' = Rev("tickStateDone", t, tickOp[t].net, 0, 0)
  /\ UNCHANGED <<pollVars, renderGen, onRefreshDataRef, loading,
                 showReplayControls, startOp, advanceOp, srv>>
  /\ UNCHANGED <<speedMultiplier, tradingIntervalDays, stopOp>>
  /\ UNCHANGED appVars
  /\ UNCHANGED chartVars

\* The delayed refresh of a tick fires: onRefreshDataRef.current().
TickRefreshFire(t) ==
  /\ tickOp[t].pc = "refreshTimer"
  /\ tickOp' = [tickOp EXCEPT ![t] = Idle]
  /\ CallRefresh(TRUE)
  /\ rev' = Rev("tickRefresh", t, "", 1, onRefreshDataRef)
  /\ UNCHANGED <<pollVars, renderGen, onRefreshDataRef, replayState, loading,
                 showReplayControls, startOp, advanceOp, srv>>
  /\ UNCHANGED <<speedMultiplier, tradingIntervalDays, stopOp, autoTimers>>
  /\ UNCHANGED chartVars

\* ===================================================================
\* Part 3: the price chart of the view
\* (src/frontend/app/components/portfolio/PriceChart.tsx, lines 481-700):
\* the window filter of the series, the alignment of the trades and the
\* count of the series fetch.  A render is part of the step that changes a
\* prop or a state of the chart.
\* ===================================================================
\* a <= b and a >= b on numbers: false when either side is NaN.
Le(a, b) == a # NaN /\ b # NaN /\ a <= b
Ge(a, b) == a # NaN /\ b # NaN /\ a >= b
\* Math.abs(a - b)
AbsDiff(a, b) ==
  IF a = NaN \/ b = NaN THEN NaN ELSE IF a >= b THEN a - b ELSE b - a
Min(a, b) == IF a <= b THEN a ELSE b

\* isReplayActive && replayStartDate && replayCurrentDate: the state of an
\* active clock carries both dates.
isReplayActive(rs) == rs.active
Replaying(rs) == isReplayActive(rs)

\* ------------------------------------------------------- symbolTrades
symbolMatch(t) ==
  t.symbol = symbol /\ (t.market = market \/ (t.market = "" /\ market = "CRYPTO"))
TradeShown(t, rs) ==
  /\ symbolMatch(t)
  /\ Replaying(rs) =>
       Ge(t.trade_time, rs.start_date) /\ Le(t.trade_time, rs.current_date)
SymbolTrades(tr, rs) == SelectSeq(tr, LAMBDA t : TradeShown(t, rs))

\* ----------------------------------------------------- validKlineData
\* 30 * 24 * 60 * 60 * 1000 milliseconds
LOOKBACK == 30 * DAY
isValidPrice(k) ==
  LET price == Coalesce(k.close, k.open) IN price # Absent /\ price > 0
\* k.datetime ? new Date(k.datetime).getTime() : (k.timestamp || 0) * 1000
klineTime(k) == IF k.datetime # "" THEN DatetimeTime(k) ELSE k.timestamp
KeepsPoint(k, rs) ==
  /\ isValidPrice(k)
  /\ Replaying(rs) =>
       /\ Le(klineTime(k), rs.current_date)
       /\ Ge(klineTime(k), rs.start_date - LOOKBACK)
ValidKlineData(kd, rs) == SelectSeq(kd, LAMBDA k : KeepsPoint(k, rs))

\* ------------------------------------------------------- closestIndex
Infinity == -2
\* diff < minDiff
Closer_OrEqual(diff, minDiff) ==
  diff # NaN /\ (minDiff = Infinity \/ diff <= minDiff)
Closer(diff, minDiff) ==
  diff # NaN /\ (minDiff = Infinity \/ diff < minDiff)
\* The forEach over validKlineData from its element idx (counted from 1).
RECURSIVE ClosestFrom(_, _, _, _, _)
ClosestFrom(series, tradeTime, idx, closest, minDiff) ==
  IF idx > Len(series) THEN closest
  ELSE LET diff == AbsDiff(tradeTime, series[idx].timestamp) IN
       IF Closer(diff, minDiff)
         THEN ClosestFrom(series, tradeTime, idx + 1, idx - 1, diff)
         ELSE ClosestFrom(series, tradeTime, idx + 1, closest, minDiff)
\* closestIndex of a trade time in the series, counted from 0.
closestIndex(series, tradeTime) ==
  ClosestFrom(series, tradeTime, 1, 0, Infinity)

\* ---------------------------------------------------------- markers
BuySides == {"BUY", "LONG"}
SellSides == {"SELL", "SHORT"}
\* The markers pushed for the trades of these sides, in the order of the
\* trades.
MarkersOf(st, series, sides) ==
  LET sel == SelectSeq(st, LAMBDA t : t.side \in sides) IN
    [i \in 1..Len(sel) |->
       Marker(closestIndex(series, sel[i].trade_time), sel[i].price, sel[i].id)]
\* if (marker.x >= 0 && marker.x < data.length) data[marker.x] = marker.y
WriteMarker_FirstWins(data, marker) ==
  IF marker.x >= 0 /\ marker.x < Len(data) /\ data[marker.x + 1] = Absent
    THEN [data EXCEPT ![marker.x + 1] = marker.y]
    ELSE data
WriteMarker(data, marker) ==
  IF marker.x >= 0 /\ marker.x < Len(data)
    THEN [data EXCEPT ![marker.x + 1] = marker.y]
    ELSE data
RECURSIVE Plot(_, _, _)
Plot(data, markers, i) ==
  IF i > Len(markers) THEN data
  ELSE Plot(WriteMarker(data, markers[i]), markers, i + 1)
\* new Array(prices.length).fill(null), then the forEach over the markers.
ChannelData(markers, n) == Plot([i \in 1..n |-> Absent], markers, 1)

\* ----------------------------------------------------------- render
\* One render: symbolTrades, then the early returns (no series, or an
\* error, or no valid point), then the filtered series, the markers and
\* the two channels.
RenderChart(kd, tr, rs, error) ==
  LET st == SymbolTrades(tr, rs)
      vk == IF error \/ kd = <<>> THEN <<>> ELSE ValidKlineData(kd, rs)
      bm == IF vk = <<>> THEN <<>> ELSE MarkersOf(st, vk, BuySides)
      sm == IF vk = <<>> THEN <<>> ELSE MarkersOf(st, vk, SellSides)
  IN /\ symbolTrades' = st
     /\ validKlineData' = vk
     /\ buyMarkers' = bm /\ sellMarkers' = sm
     /\ buyData' = ChannelData(bm, Len(vk))
     /\ sellData' = ChannelData(sm, Len(vk))

\* ------------------------------------------------------ getDataCount
daysMap(hr) ==
  CASE hr = "1M" -> 30 [] hr = "3M" -> 90 [] hr = "6M" -> 180
    [] hr = "1Y" -> 365 [] hr = "2Y" -> 730 [] OTHER -> 365
PerDay(tf) ==
  CASE tf = "1m" -> 24 * 60 [] tf = "5m" -> 24 * 12 [] tf = "15m" -> 24 * 4
    [] OTHER -> 24
getDataCount_NoCap(tf, hr) ==
  IF tf = "1d"
    THEN CASE hr = "1M" -> 31 [] hr = "3M" -> 93 [] hr = "6M" -> 183
           [] hr = "1Y" -> 365 [] hr = "2Y" -> 500 [] hr = "ALL" -> 500
           [] OTHER -> 365
  ELSE IF hr = "ALL" THEN 500
  ELSE IF tf \in {"1m", "5m", "15m", "1h"}
    THEN daysMap(hr) * PerDay(tf)
  ELSE 100
getDataCount(tf, hr) ==
  IF tf = "1d"
    THEN CASE hr = "1M" -> 31 [] hr = "3M" -> 93 [] hr = "6M" -> 183
           [] hr = "1Y" -> 365 [] hr = "2Y" -> 500 [] hr = "ALL" -> 500
           [] OTHER -> 365
  ELSE IF hr = "ALL" THEN 500
  ELSE IF tf \in {"1m", "5m", "15m", "1h"}
    THEN Min(500, daysMap(hr) * PerDay(tf))
  ELSE 100

\* ------------------------------------------------- the fetch effect
\* The dependencies of the effect that depend on the props:
\* isReplayActive and replayState?.state?.current_date.
ChartDeps(rs) == <<rs.active, IF rs.active THEN rs.current_date ELSE Absent>>

\* fetchKlineData up to its await: setLoading(true), setError(null) and the
\* getCryptoKline request with the count of this render.
fetchKlineData(tf, hr) ==
  /\ Len(klineReq) < MaxFetches
  /\ klineLoading' = TRUE
  /\ klineError' = FALSE
  /\ klineReq' = Append(klineReq, getDataCount(tf, hr))

\* The first render of the chart with its props, and the first run of the
\* effect.
MountChart(tr, rs) ==
  /\ viewEffect # 0
  /\ ~chartMounted
  /\ chartMounted' = TRUE
  /\ chartTrades' = tr /\ chartReplayState' = rs
  /\ fetchKlineData(timeframe, historyRange)
  /\ RenderChart(klineData, tr, rs, FALSE)
  /\ cev' = Cev("mountChart", getDataCount(timeframe, historyRange))
  /\ UNCHANGED <<timeframe, historyRange, klineData>>
  /\ UNCHANGED <<appVars, clockVars>>

\* The view renders the chart with other props; the effect runs again when
\* one of its dependencies changed.
ChartProps(tr, rs) ==
  /\ chartMounted
  /\ <<tr, rs>> # <<chartTrades, chartReplayState>>
  /\ chartTrades' = tr /\ chartReplayState' = rs
  /\ IF ChartDeps(rs) # ChartDeps(chartReplayState)
       THEN /\ fetchKlineData(timeframe, historyRange)
            /\ cev' = Cev("chartProps", getDataCount(timeframe, historyRange))
       ELSE /\ UNCHANGED <<klineLoading, klineError, klineReq>>
            /\ cev' = Cev("chartProps", 0)
  /\ RenderChart(klineData, tr, rs, klineError')
  /\ UNCHANGED <<chartMounted, timeframe, historyRange, klineData>>
  /\ UNCHANGED <<appVars, clockVars>>

\* A timeframe button.
setTimeframe(tf) ==
  /\ chartMounted
  /\ tf # timeframe
  /\ timeframe' = tf
  /\ fetchKlineData(tf, historyRange)
  /\ RenderChart(klineData, chartTrades, chartReplayState, FALSE)
  /\ cev' = Cev("setTimeframe", getDataCount(tf, historyRange))
  /\ UNCHANGED <<chartMounted, chartTrades, chartReplayState, historyRange,
                 klineData>>
  /\ UNCHANGED <<appVars, clockVars>>

\* A history range button.
setHistoryRange(hr) ==
  /\ chartMounted
  /\ hr # historyRange
  /\ historyRange' = hr
  /\ fetchKlineData(timeframe, hr)
  /\ RenderChart(klineData, chartTrades, chartReplayState, FALSE)
  /\ cev' = Cev("setHistoryRange", getDataCount(timeframe, hr))
  /\ UNCHANGED <<chartMounted, chartTrades, chartReplayState, timeframe,
                 klineData>>
  /\ UNCHANGED <<appVars, clockVars>>

\* The refresh interval of the effect, armed while no replay is active.
KlineRefreshFire ==
  /\ chartMounted
  /\ ~isReplayActive(chartReplayState)
  /\ fetchKlineData(timeframe, historyRange)
  /\ RenderChart(klineData, chartTrades, chartReplayState, FALSE)
  /\ cev' = Cev("refreshInterval", getDataCount(timeframe, historyRange))
  /\ UNCHANGED <<chartMounted, chartTrades, chartReplayState, timeframe,
                 historyRange, klineData>>
  /\ UNCHANGED <<appVars, clockVars>>

\* fetchKlineData after its await, for request i in flight: a response with
\* a data array, another response, or a failed request.
FetchDone(i, kind, data) ==
  /\ i \in 1..Len(klineReq)
  /\ klineReq' = SubSeq(klineReq, 1, i - 1) \o SubSeq(klineReq, i + 1, Len(klineReq))
  /\ klineData' = IF kind = "data" THEN data ELSE klineData
  /\ klineError' = IF kind = "data" THEN klineError ELSE TRUE
  /\ klineLoading' = FALSE
  /\ RenderChart(klineData', chartTrades, chartReplayState, klineError')
  /\ cev' = Cev("fetchDone", 0)
  /\ UNCHANGED <<chartMounted, chartTrades, chartReplayState, timeframe,
                 historyRange>>
  /\ UNCHANGED <<appVars, clockVars>>

\* ------------------------------------------------ the controller's spec
\* App is rendered (user u1, account a1 and a snapshot received) and its
\* connection has closed normally, a state SpecWire reaches by Mount,
\* SocketOpen, two SocketMessage steps and SocketClose; the view has not
\* been shown yet.
InitReplay ==
  /\ InitView
  /\ singleton = 0 /\ wsRef = 0
  /\ mountedEffect = 1 /\ nEffects = 1 /\ nSockets = 1
  /\ readyState = [s \in Sockets |-> IF s = 1 THEN "CLOSED" ELSE "NONE"]
  /\ handlers = [s \in Sockets |-> IF s = 1 THEN 1 ELSE 0]
  /\ wsVar = [c \in Effects |-> IF c = 1 THEN 1 ELSE 0]
  /\ timer = [c \in Effects |-> 0]
  /\ sent = [s \in Sockets |-> <<>>]
  /\ bootAck = [s \in Sockets |-> FALSE]
  /\ wsConnected = FALSE /\ wsError = "null"
  /\ user = "u1" /\ account = "a1" /\ overview = "o1"
  /\ positions = "p1" /\ orders = "r1" /\ trades = "t1"
  /\ aiDecisions = "d1" /\ allAssetCurves = "[]"
  /\ accountRefreshTrigger = 0
  /\ ev = Ev("close", 1, 1, ToString(CLOSE_NORMAL), "")

\* One mounted view: its poll loop, the controls panel, handleStart and
\* handleAdvance.
NextReplay ==
  \/ MountView
  \/ \E k \in ViewEffects : PollTimerFire(k)
  \/ \E k \in ViewEffects, up \in BOOLEAN : ServePoll(k, up)
  \/ \E k \in ViewEffects : PollDone(k)
  \/ openControls
  \/ closeControls
  \/ \E startDate \in DateInputs, endDate \in DateInputs,
        answer \in {"ok", "refused", "fail"} :
          handleStart(startDate, endDate, answer, TRUE)
  \/ StartReplayDone
  \/ \E up \in BOOLEAN : StartSettleFire(up)
  \/ StartStateDone
  \/ \E intervals \in {1, 7}, up \in BOOLEAN : handleAdvance(intervals, up)
  \/ \E up \in BOOLEAN : AdvanceDone(up)
  \/ AdvanceStateDone
  \/ AdvanceRefreshFire

SpecReplay == InitReplay /\ [][NextReplay]_vars

\* The poll loop over the runs of its effect and the renders of the view,
\* with handleStart to make the server clock run.
NextPoll ==
  \/ MountView
  \/ UnmountView
  \/ Rerender
  \/ \E k \in ViewEffects : PollTimerFire(k)
  \/ \E k \in ViewEffects, up \in BOOLEAN : ServePoll(k, up)
  \/ \E k \in ViewEffects : PollDone(k)
  \/ openControls
  \/ \E startDate \in DateInputs, endDate \in DateInputs,
        answer \in {"ok", "refused", "fail"} :
          handleStart(startDate, endDate, answer, TRUE)
  \/ StartReplayDone
  \/ \E up \in BOOLEAN : StartSettleFire(up)
  \/ StartStateDone

SpecPoll == InitReplay /\ [][NextPoll]_vars

\* The view is mounted and its first poll has found no replay running: the
\* state SpecPoll reaches by MountView, ServePoll and PollDone.
InitClock ==
  /\ InitChartVars
  /\ viewEffect = 1 /\ nViewEffects = 1
  /\ cancelled = [k \in ViewEffects |-> FALSE]
  /\ pollTimeoutRef = 1
  /\ pollTimer = [k \in ViewEffects |-> IF k = 1 THEN CONFIG_normalMs ELSE 0]
  /\ inFlightRef = FALSE
  /\ pollReq = [k \in ViewEffects |-> NoReq]
  /\ renderGen = 0 /\ onRefreshDataRef = 0
  /\ replayState = Inactive
  /\ loading = FALSE /\ showReplayControls = FALSE
  /\ startOp = Idle /\ advanceOp = Idle
  /\ srv = Inactive
  /\ rev = Rev("pollDone", 1, "ok", 0, 0)
  /\ speedMultiplier = 1 /\ tradingIntervalDays = 1
  /\ stopOp = Idle
  /\ autoTimers = <<>>
  /\ tickOp = [t \in Ticks |-> Idle]
  /\ singleton = 0 /\ wsRef = 0
  /\ mountedEffect = 1 /\ nEffects = 1 /\ nSockets = 1
  /\ readyState = [s \in Sockets |-> IF s = 1 THEN "CLOSED" ELSE "NONE"]
  /\ handlers = [s \in Sockets |-> IF s = 1 THEN 1 ELSE 0]
  /\ wsVar = [c \in Effects |-> IF c = 1 THEN 1 ELSE 0]
  /\ timer = [c \in Effects |-> 0]
  /\ sent = [s \in Sockets |-> <<>>]
  /\ bootAck = [s \in Sockets |-> FALSE]
  /\ wsConnected = FALSE /\ wsError = "null"
  /\ user = "u1" /\ account = "a1" /\ overview = "o1"
  /\ positions = "p1" /\ orders = "r1" /\ trades = "t1"
  /\ aiDecisions = "d1" /\ allAssetCurves = "[]"
  /\ accountRefreshTrigger = 0
  /\ ev = Ev("close", 1, 1, ToString(CLOSE_NORMAL), "")

\* The replay clock over one mounted view with every request answered: the
\* poll loop, start (with the panel's initial speed and interval), stop,
\* manual advances and the auto-advance effect, whose ticks run one at a
\* time.  An advanceReplay still fails when no replay is running.
NextClock ==
  \/ MountView
  \/ \E k \in ViewEffects : PollTimerFire(k)
  \/ \E k \in ViewEffects : ServePoll(k, TRUE)
  \/ \E k \in ViewEffects : PollDone(k)
  \/ openControls
  \/ \E startDate \in DateInputs, endDate \in DateInputs :
        handleStart(startDate, endDate, "ok", TRUE)
  \/ StartReplayDone
  \/ StartSettleFire(TRUE)
  \/ StartStateDone
  \/ handleStop(TRUE)
  \/ StopDone
  \/ StopRefreshFire
  \/ \E intervals \in {1, 7} : handleAdvance(intervals, TRUE)
  \/ AdvanceDone(TRUE)
  \/ AdvanceStateDone
  \/ AdvanceRefreshFire
  \/ \E i \in 1..Len(autoTimers) : AutoTick(i, 1, TRUE)
  \/ TickAdvanceDone(1, TRUE)
  \/ TickStateDone(1)
  \/ TickRefreshFire(1)

SpecClock == InitReplay /\ [][NextClock]_vars

\* The handlers of the clock on their own, after the first poll: start,
\* stop, manual advances and the ticks, one at a time, with their failures.
NextOps ==
  \/ openControls
  \/ \E startDate \in DateInputs, endDate \in DateInputs,
        answer \in {"ok", "refused", "fail"} :
          handleStart(startDate, endDate, answer, TRUE)
  \/ StartReplayDone
  \/ \E up \in BOOLEAN : StartSettleFire(up)
  \/ StartStateDone
  \/ \E up \in BOOLEAN : handleStop(up)
  \/ StopDone
  \/ StopRefreshFire
  \/ \E intervals \in {1, 7}, up \in BOOLEAN : handleAdvance(intervals, up)
  \/ \E up \in BOOLEAN : AdvanceDone(up)
  \/ AdvanceStateDone
  \/ AdvanceRefreshFire
  \/ \E i \in 1..Len(autoTimers), up \in BOOLEAN : AutoTick(i, 1, up)
  \/ \E up \in BOOLEAN : TickAdvanceDone(1, up)
  \/ TickStateDone(1)
  \/ TickRefreshFire(1)

SpecOps == InitClock /\ [][NextOps]_vars

\* The auto-advance effect under the speeds and intervals of the panel,
\* with a server that reports trading_interval_days or omits it: the
\* panel's inputs, start, stop and the ticks, one at a time, after the
\* first poll.
NextAuto ==
  \/ openControls
  \/ \E v \in SpeedInputs : setSpeedMultiplier(v)
  \/ \E v \in IntervalInputs : setTradingIntervalDays(v)
  \/ \E startDate \in DateInputs, endDate \in DateInputs,
        answer \in {"ok", "refused", "fail"}, reports \in BOOLEAN :
          handleStart(startDate, endDate, answer, reports)
  \/ StartReplayDone
  \/ \E up \in BOOLEAN : StartSettleFire(up)
  \/ StartStateDone
  \/ \E up \in BOOLEAN : handleStop(up)
  \/ StopDone
  \/ StopRefreshFire
  \/ \E i \in 1..Len(autoTimers), up \in BOOLEAN : AutoTick(i, 1, up)
  \/ \E up \in BOOLEAN : TickAdvanceDone(1, up)
  \/ TickStateDone(1)
  \/ TickRefreshFire(1)

SpecAuto == InitClock /\ [][NextAuto]_vars

\* The runs of the auto-advance effect: the cleanup and re-run of the view's
\* effects, and the stops and restarts at another speed that change its
\* dependencies, with the ticks one at a time.  The poll a re-run issues is
\* not answered here.
NextRearm ==
  \/ UnmountView
  \/ MountView
  \/ openControls
  \/ \E v \in SpeedInputs : setSpeedMultiplier(v)
  \/ \E startDate \in DateInputs, endDate \in DateInputs,
        answer \in {"ok", "refused", "fail"} :
          handleStart(startDate, endDate, answer, TRUE)
  \/ StartReplayDone
  \/ \E up \in BOOLEAN : StartSettleFire(up)
  \/ StartStateDone
  \/ \E up \in BOOLEAN : handleStop(up)
  \/ StopDone
  \/ StopRefreshFire
  \/ \E i \in 1..Len(autoTimers), up \in BOOLEAN : AutoTick(i, 1, up)
  \/ \E up \in BOOLEAN : TickAdvanceDone(1, up)
  \/ TickStateDone(1)
  \/ TickRefreshFire(1)

SpecRearm == InitClock /\ [][NextRearm]_vars

\* A replay run end to end: starts over the two-day window at the panel's
\* initial speed 1 and interval 1, the periodic poll and the ticks, every
\* request answered.  A timer that is armed fires and a request that is
\* answered resolves (weak fairness); the user's clicks are not forced.
NextRun ==
  \/ \E k \in ViewEffects : PollTimerFire(k)
  \/ \E k \in ViewEffects : ServePoll(k, TRUE)
  \/ \E k \in ViewEffects : PollDone(k)
  \/ openControls
  \/ handleStart("2024-01-01", "2024-01-02", "ok", TRUE)
  \/ StartReplayDone
  \/ StartSettleFire(TRUE)
  \/ StartStateDone
  \/ \E i \in 1..Len(autoTimers) : AutoTick(i, 1, TRUE)
  \/ TickAdvanceDone(1, TRUE)
  \/ TickStateDone(1)
  \/ TickRefreshFire(1)

FairRun ==
  /\ \A k \in ViewEffects :
       /\ WF_vars(PollTimerFire(k))
       /\ WF_vars(ServePoll(k, TRUE))
       /\ WF_vars(PollDone(k))
  /\ WF_vars(StartReplayDone)
  /\ WF_vars(StartSettleFire(TRUE))
  /\ WF_vars(StartStateDone)
  /\ WF_vars(\E i \in 1..Len(autoTimers) : AutoTick(i, 1, TRUE))
  /\ WF_vars(TickAdvanceDone(1, TRUE))
  /\ WF_vars(TickStateDone(1))
  /\ WF_vars(TickRefreshFire(1))

SpecRun == InitClock /\ [][NextRun]_vars /\ FairRun

\* The controller between Idle, Configuring and Active: the panel with its
\* speed input, start over the two-day window, stop, the periodic poll and the
\* ticks, one at a time, with every request answered.  The replay completes
\* when a tick moves the clock to the end of the window.
NextPanel ==
  \/ \E k \in ViewEffects : PollTimerFire(k)
  \/ \E k \in ViewEffects : ServePoll(k, TRUE)
  \/ \E k \in ViewEffects : PollDone(k)
  \/ openControls
  \/ closeControls
  \/ \E v \in SpeedInputs : setSpeedMultiplier(v)
  \/ handleStart("2024-01-01", "2024-01-02", "ok", TRUE)
  \/ StartReplayDone
  \/ StartSettleFire(TRUE)
  \/ StartStateDone
  \/ handleStop(TRUE)
  \/ StopDone
  \/ StopRefreshFire
  \/ \E i \in 1..Len(autoTimers) : AutoTick(i, 1, TRUE)
  \/ TickAdvanceDone(1, TRUE)
  \/ TickStateDone(1)
  \/ TickRefreshFire(1)

SpecPanel == InitClock /\ [][NextPanel]_vars

\* ------------------------------------------------- the chart's specs
\* Ascending series of at most MaxPoints points.
Ascending(seq) ==
  \A i \in 1..(Len(seq) - 1) : seq[i].timestamp < seq[i + 1].timestamp
SeriesOver(points) ==
  {seq \in UNION {[1..n -> points] : n \in 0..MaxPoints} : Ascending(seq)}

\* The replayState props: none, no replay, and a replay over the two-day
\* window at its first and at its second day.
ReplayInputs ==
  {NullState, Inactive} \cup
  {RS(FALSE, TRUE, 0, 2 * DAY - 1, c, 1, 1) : c \in {0, DAY}}

\* Points around the window of the replay: 31 and 30 days before its start,
\* at its start and a day later; at the start also a zero close, no price
\* and an open only, a day later also the three kinds of datetime.
FilterPoints ==
  {KlineData(ts, "", 100, Absent) : ts \in {0 - 31 * DAY, 0 - 30 * DAY, 0, DAY}}
    \cup {KlineData(0, "", 0, 100), KlineData(0, "", Absent, Absent),
          KlineData(0, "", Absent, 100)}
    \cup {KlineData(DAY, d, 100, Absent) : d \in {"same", "late", "bad"}}
FilterSeries == SeriesOver(FilterPoints)

\* The window filter: the chart without trades, under its replayState
\* props, the refresh interval and the responses of the series fetch.
NextChart ==
  \/ \E rs \in ReplayInputs : MountChart(<<>>, rs)
  \/ \E rs \in ReplayInputs : ChartProps(<<>>, rs)
  \/ KlineRefreshFire
  \/ \E i \in 1..MaxFetches, data \in FilterSeries : FetchDone(i, "data", data)
  \/ \E i \in 1..MaxFetches, kind \in {"nodata", "throw"} :
        FetchDone(i, kind, <<>>)

SpecChart == InitClock /\ [][NextChart]_vars

\* Daily points with a close and no datetime.
AlignPoints == {KlineData(ts, "", 100, Absent) : ts \in {0, DAY, 2 * DAY}}
AlignSeries == SeriesOver(AlignPoints)

\* The series fetch: the timeframe and history range buttons and the
\* refresh interval of a chart without trades and without a replay, and
\* the responses to its requests.
NextCount ==
  \/ MountChart(<<>>, Inactive)
  \/ \E tf \in Timeframes : setTimeframe(tf)
  \/ \E hr \in HistoryRanges : setHistoryRange(hr)
  \/ KlineRefreshFire
  \/ \E i \in 1..MaxFetches, data \in AlignSeries : FetchDone(i, "data", data)
  \/ \E i \in 1..MaxFetches, kind \in {"nodata", "throw"} :
        FetchDone(i, kind, <<>>)

SpecCount == InitClock /\ [][NextCount]_vars

\* The kinds of trade <<side, time, symbol, market>>: the sides (and one
\* that is none of the four) half way between the first two points, other
\* times (at the second point, after the window, no date), and other
\* markets and symbols.
TradeKinds ==
  {<<sd, 12 * HOUR, "BTC", "CRYPTO">> :
      sd \in {"BUY", "LONG", "SELL", "SHORT", "HOLD"}}
    \cup {<<"BUY", tm, "BTC", "CRYPTO">> : tm \in {DAY, 3 * DAY, NaN}}
    \cup {<<"BUY", 12 * HOUR, "BTC", "">>, <<"BUY", 12 * HOUR, "BTC", "US">>,
          <<"BUY", 12 * HOUR, "ETH", "CRYPTO">>}
\* The next trade of the list: its id is its place in the list and its
\* price ten times its id.
NewTrade(ks) ==
  LET id == Len(chartTrades) + 1 IN
    Trade(id, ks[3], ks[4], ks[1], 10 * id, ks[2])

\* The alignment: the chart over daily series, with a list of at most
\* MaxTrades trades that grows by one trade at a time, without a replay and
\* with the replay at its second day.
NextAlign ==
  \/ \E rs \in {Inactive, RS(FALSE, TRUE, 0, 2 * DAY - 1, DAY, 1, 1)} :
        MountChart(<<>>, rs)
  \/ \E ks \in TradeKinds :
        /\ Len(chartTrades) < MaxTrades
        /\ ChartProps(Append(chartTrades, NewTrade(ks)), chartReplayState)
  \/ \E rs \in {Inactive, RS(FALSE, TRUE, 0, 2 * DAY - 1, DAY, 1, 1)} :
        ChartProps(chartTrades, rs)
  \/ \E i \in 1..MaxFetches, data \in AlignSeries : FetchDone(i, "data", data)

SpecAlign == InitClock /\ [][NextAlign]_vars

\* The auto-advance timer with every free tick slot: a replay is started,
\* the interval fires while earlier callbacks are still awaiting their
\* requests, and a manual advance and the periodic poll run beside them.
NextOverlap ==
  \/ \E k \in ViewEffects : PollTimerFire(k)
  \/ \E k \in ViewEffects : ServePoll(k, TRUE)
  \/ \E k \in ViewEffects : PollDone(k)
  \/ openControls
  \/ handleStart("2024-01-01", "2024-01-02", "ok", TRUE)
  \/ StartReplayDone
  \/ StartSettleFire(TRUE)
  \/ StartStateDone
  \/ handleAdvance(1, TRUE)
  \/ AdvanceDone(TRUE)
  \/ AdvanceStateDone
  \/ AdvanceRefreshFire
  \/ \E i \in 1..Len(autoTimers), t \in Ticks : AutoTick(i, t, TRUE)
  \/ \E t \in Ticks : TickAdvanceDone(t, TRUE)
  \/ \E t \in Ticks : TickStateDone(t)
  \/ \E t \in Ticks : TickRefreshFire(t)

SpecOverlap == InitClock /\ [][NextOverlap]_vars

\* --------------------------------------------------------------- claims
PendingTimers == {c \in Effects : timer[c] # 0}

\* C1: at most one socket created by the connection effect is CONNECTING or
\* OPEN at a time, whatever the sequence of mounts, unmounts, socket events
\* and reconnect-timer firings.
C1_SingleLiveSocket == Cardinality(LiveSockets) <= 1

\* C2: a close event with a code other than 1000 and 1001 schedules exactly
\* one reconnection attempt, 3000 ms later; a close with 1000 or 1001 and an
\* error event schedule none; a firing timer calls connectWebSocket exactly
\* once, and nothing but a mount or a timer creates a socket.
C2_ReconnectPolicy ==
  [][ /\ (ev'.op = "close" /\ ev'.arg \notin {"1000", "1001"} =>
            /\ timer[ev'.eff] = 0
            /\ timer' = [timer EXCEPT ![ev'.eff] = 3000]
            /\ nSockets' = nSockets)
      /\ (ev'.op = "close" /\ ev'.arg \in {"1000", "1001"} =>
            timer' = timer /\ nSockets' = nSockets)
      /\ (ev'.op = "error" => timer' = timer /\ nSockets' = nSockets)
      /\ (ev'.op = "timer" =>
            /\ timer[ev'.eff] # 0
            /\ \A c \in Effects \ {ev'.eff} : timer'[c] = timer[c]
            /\ \/ ev'.out = "created" /\ nSockets' = nSockets + 1 /\ timer'[ev'.eff] = 0
               \/ ev'.out = "threw" /\ nSockets' = nSockets)
      /\ (nSockets' # nSockets => ev'.op \in {"mount", "timer"})
    ]_vars
C2_Witness == ev.op = "close" /\ ev.arg = "1006" /\ timer[ev.eff] = 3000

\* C3: at most one reconnection timer is outstanding, and after a socket
\* Open event has been handled no reconnection timer is pending.
C3_OneTimerOpenCancels ==
  /\ Cardinality(PendingTimers) <= 1
  /\ (ev.op = "open" => PendingTimers = {})

\* C4: when creating the socket throws inside connectWebSocket, exactly one
\* retry is scheduled 5000 ms later, no socket is created in that step, and
\* the singleton and wsRef keep their values.
C4_SyncThrowRetry ==
  [][ ev'.op \in {"mount", "timer"} /\ ev'.out = "threw" =>
        /\ timer'[ev'.eff] = 5000
        /\ \A c \in Effects \ {ev'.eff} : timer'[c] = timer[c]
        /\ nSockets' = nSockets
        /\ readyState' = readyState
        /\ singleton' = singleton
        /\ wsRef' = wsRef
    ]_vars
C4_Witness == ev.op \in {"mount", "timer"} /\ ev.out = "threw" /\ timer[ev.eff] = 5000

\* C5: every abnormal close and every synchronous connect failure leaves a
\* retry pending, and a pending retry leads to another connectWebSocket call
\* unless the effect that owns it is cleaned up first.
Failure(c) ==
  /\ ev.eff = c
  /\ \/ ev.op = "close" /\ ev.arg \notin {"1000", "1001"}
     \/ ev.op \in {"mount", "timer"} /\ ev.out = "threw"
C5_RetryForever ==
  \A c \in Effects :
    /\ [](Failure(c) => timer[c] # 0)
    /\ (timer[c] # 0) ~> (\/ ev.op = "timer" /\ ev.eff = c
                          \/ ev.op = "unmount" /\ ev.eff = c)
C5_Witness == ev.op = "timer" /\ ev.out = "threw" /\ nSockets >= 1

Count(seq, x) == Cardinality({i \in 1..Len(seq) : seq[i] = x})

\* C6: on every connection the bootstrap message is sent exactly once, when
\* the socket opens, as the first message; no get_snapshot is on the wire of
\* a connection before bootstrap_ok carrying an account was received on it.
C6_BootstrapBeforeRefresh ==
  \A s \in Sockets :
    /\ (readyState[s] = "CONNECTING" => sent[s] = <<>>)
    /\ (readyState[s] = "OPEN" =>
          /\ Len(sent[s]) >= 1
          /\ sent[s][1] = "bootstrap"
          /\ Count(sent[s], "bootstrap") = 1)
    /\ (Count(sent[s], "get_snapshot") > 0 => bootAck[s])

\* C7: place_order, switch_user and switch_account are transmitted only on
\* a current socket that exists and is OPEN; otherwise the operation ends in
\* the not-connected outcome and nothing is sent.
CommandType(op) ==
  CASE op = "placeOrder" -> "place_order"
    [] op = "switchUser" -> "switch_user"
    [] op = "switchAccount" -> "switch_account"
C7_SendOnlyWhenOpen ==
  [][ ev'.op \in {"placeOrder", "switchUser", "switchAccount"} =>
        IF wsRef = 0
          THEN sent' = sent /\ ev'.out = "not_connected"
        ELSE IF readyState[wsRef] = "OPEN"
          THEN /\ sent' = [sent EXCEPT ![wsRef] = Append(@, CommandType(ev'.op))]
               /\ ev'.out = "sent"
          ELSE sent' = sent /\ ev'.out = "not_connected"
    ]_vars
C7_Witness ==
  /\ ev.op \in {"placeOrder", "switchUser", "switchAccount"}
  /\ ev.out = "not_connected"
  /\ wsRef # 0
  /\ readyState[wsRef] \in {"CONNECTING", "CLOSING"}

\* C8: refreshData sends exactly one get_snapshot iff the connection is OPEN
\* at the call; otherwise it sends nothing, raises no error and changes no
\* state.  handleAccountUpdated sends under the same condition.
C8_RefreshIffOpen ==
  [][ /\ (ev'.op \in {"refreshData", "handleAccountUpdated"} =>
            IF wsRef = 0
              THEN sent' = sent /\ ev'.out = "noop"
            ELSE IF readyState[wsRef] = "OPEN"
              THEN /\ sent' = [sent EXCEPT ![wsRef] = Append(@, "get_snapshot")]
                   /\ ev'.out = "sent"
              ELSE sent' = sent /\ ev'.out = "noop")
      /\ (ev'.op = "refreshData" =>
            UNCHANGED <<connVars, bootAck, uiVars, dataVars>>)
    ]_vars
C8_Witness ==
  /\ ev.op = "refreshData"
  /\ ev.out = "noop"
  /\ wsRef # 0
  /\ readyState[wsRef] \in {"CONNECTING", "CLOSING"}

\* C9: a frame that cannot be parsed, or whose handling throws, is dropped:
\* user, account, overview, positions, orders, trades, aiDecisions and
\* allAssetCurves are unchanged, nothing is sent, the socket stays OPEN with
\* its listeners, and a well-formed frame can still be dispatched on it.
WellFormedFrame == Obj("snapshot", U, U, "o1", "p1", "r1", "t1", "d1", "c1", U)
C9_MalformedDropped ==
  /\ [][ ev'.op = "message" /\ (ev'.msg.json # "object" \/ ev'.out = "dropped") =>
           /\ UNCHANGED dataVars
           /\ sent' = sent
           /\ readyState' = readyState
           /\ handlers' = handlers
           /\ ev'.out = "dropped"
       ]_vars
  /\ [](ev.op = "message" /\ ev.out = "dropped" =>
          /\ readyState[ev.sock] = "OPEN"
          /\ ENABLED SocketMessage(ev.sock, WellFormedFrame))
C9_Witness ==
  /\ ev.op = "message" /\ ev.out = "dropped"
  /\ ev.msg.type = "snapshot" /\ ev.msg.all_asset_curves = "c2"
  /\ allAssetCurves = "c1" /\ overview = "o1"

\* C10: a snapshot, snapshot_full or snapshot_fast frame without
\* all_asset_curves leaves the stored curves as they were; the curves change
\* only on a snapshot frame that carries them, and then equal the carried
\* value.
C10_CurvesRetained ==
  [][ /\ (ev'.op = "message" /\ ev'.msg.type \in SnapshotTypes
            /\ ev'.msg.all_asset_curves \in {"undefined", "null"}
          => allAssetCurves' = allAssetCurves)
      /\ (allAssetCurves' # allAssetCurves =>
            /\ ev'.op = "message"
            /\ ev'.msg.type \in {"snapshot", "snapshot_full", "snapshot_fast"}
            /\ allAssetCurves' = ev'.msg.all_asset_curves)
    ]_vars
C10_Witness ==
  /\ ev.op = "message" /\ ev.out = "handled"
  /\ ev.msg.type \in {"snapshot", "snapshot_full", "snapshot_fast"}
  /\ ev.msg.all_asset_curves = "undefined"
  /\ ev.msg.overview = "o1"
  /\ overview = "o1"
  /\ allAssetCurves = "c1"

\* C11: for every slice (overview, positions, orders, trades, aiDecisions,
\* curves) a snapshot frame that omits the slice leaves the stored value as
\* it was, and a snapshot frame that names it replaces the stored value.
Kept(field, old, new) == IF field = "undefined" THEN new = old ELSE new = field
C11_OmittedSliceRetained ==
  [][ ev'.op = "message" /\ ev'.out = "handled" /\ ev'.msg.type \in SnapshotTypes =>
        /\ Kept(ev'.msg.overview, overview, overview')
        /\ Kept(ev'.msg.positions, positions, positions')
        /\ Kept(ev'.msg.orders, orders, orders')
        /\ Kept(ev'.msg.trades, trades, trades')
        /\ Kept(ev'.msg.ai_decisions, aiDecisions, aiDecisions')
        /\ Kept(ev'.msg.all_asset_curves, allAssetCurves, allAssetCurves')
    ]_vars

\* C12: a trades frame replaces the trades slice and nothing else: overview,
\* positions, orders, aiDecisions, curves, user and account stay as they
\* were and nothing is sent.
C12_TradesOnly ==
  [][ ev'.op = "message" /\ ev'.out = "handled" /\ ev'.msg.type = "trades" =>
        /\ trades' = IF ev'.msg.trades = "undefined" THEN "[]" ELSE ev'.msg.trades
        /\ UNCHANGED <<user, account, overview, positions, orders, aiDecisions,
                       allAssetCurves>>
        /\ sent' = sent
    ]_vars
C12_Witness ==
  /\ ev.op = "message" /\ ev.out = "handled" /\ ev.msg.type = "trades"
  /\ ev.msg.trades = "t2"
  /\ trades = "t2"
  /\ overview = "o1" /\ positions = "p1" /\ orders = "r1" /\ aiDecisions = "d1"

\* C13: an order_filled or order_pending frame changes no slice and sends
\* exactly one get_snapshot on the socket; positions and orders change only
\* on a snapshot frame, trades only on a snapshot or a trades frame.
C13_OrderEventRefreshes ==
  [][ /\ (ev'.op = "message" /\ ev'.out = "handled"
            /\ ev'.msg.type \in {"order_filled", "order_pending"} =>
            /\ UNCHANGED dataVars
            /\ sent' = [sent EXCEPT ![ev'.sock] = Append(@, "get_snapshot")])
      /\ (positions' # positions \/ orders' # orders =>
            ev'.op = "message" /\ ev'.msg.type \in SnapshotTypes)
      /\ (trades' # trades =>
            ev'.op = "message" /\ ev'.msg.type \in SnapshotTypes \cup {"trades"})
    ]_vars
C13_Witness ==
  /\ ev.op = "message" /\ ev.out = "handled" /\ ev.msg.type = "order_filled"
  /\ sent[ev.sock] = <<"bootstrap", "get_snapshot">>
  /\ positions = "p1" /\ orders = "r1" /\ trades = "t1"

\* C14: while the view is mounted its poll loop never stalls: after a
\* mount, also one that follows an unmount during which the previous poll is
\* still in flight, a poll of the current effect run is in flight or its
\* next-poll timer is armed.
C14_PollLoopAlive ==
  viewEffect # 0 =>
    pollReq[viewEffect].net # "none" \/ pollTimer[viewEffect] # 0

PollsInFlight == {k \in ViewEffects : pollReq[k].net # "none"}
C16_PollNeverOverlaps ==
  /\ [](Cardinality(PollsInFlight) <= 1)
  /\ [][ rev'.op \in {"mountView", "pollTimer"} /\ PollsInFlight # {} =>
           /\ pollReq' = pollReq
           /\ \A k \in ViewEffects : pollTimer'[k] # 0 => pollTimer[k] # 0
       ]_vars
C16_Witness ==
  /\ rev.op = "mountView" /\ rev.out = "skipped"
  /\ PollsInFlight = {1}
  /\ viewEffect = 2

\* C17: no two getReplayState requests of one controller are outstanding
\* together, whether issued by the periodic poll, by the poll after a start
\* or by the re-poll after an advance.
FetchesInFlight ==
  Cardinality(PollsInFlight)
    + (IF startOp.pc = "getReplayState" THEN 1 ELSE 0)
    + (IF advanceOp.pc = "getReplayState" THEN 1 ELSE 0)
C17_NoFetchOverlap == FetchesInFlight <= 1

C19_InvalidStartRejected ==
  startOp.pc = "startReplay" =>
    startOp.a # NaN /\ startOp.b # NaN /\ startOp.a < startOp.b

\* C20 as stated: after a successful startReplay the controller waits the
\* settle delay and then fetches the clock state once; the local clock
\* state is not Active before the settle delay has elapsed, and the fetch
\* answers active = true.
C20_ActiveOnlyAfterSettle ==
  /\ [](startOp.pc \in {"startReplay", "settle"} => ~replayState.active)
  /\ [](startOp.pc = "getReplayState" /\ startOp.net = "ok" => startOp.resp.active)

\* C20, amended: after a successful startReplay handleStart arms the
\* 500 ms settle timer, whose callback issues exactly one getReplayState;
\* when that fetch succeeds the local clock state becomes its response, the
\* panel closes and onRefreshData is called once.  No step of handleStart
\* before that changes the local clock state.
C20_StartThenPoll ==
  [][ /\ (rev'.op = "startReplayDone" /\ startOp.net = "ok" =>
            /\ startOp'.pc = "settle" /\ startOp'.a = 500
            /\ FetchesInFlight' = FetchesInFlight)
      /\ (rev'.op = "startReplayDone" /\ startOp.net # "ok" => startOp'.pc = "idle")
      /\ (rev'.op = "startSettle" =>
            /\ startOp.pc = "settle" /\ startOp'.pc = "getReplayState"
            /\ FetchesInFlight' = FetchesInFlight + 1)
      /\ (rev'.op \in {"handleStart", "startReplayDone", "startSettle"} =>
            replayState' = replayState /\ showReplayControls' = showReplayControls)
      /\ (rev'.op = "startStateDone" /\ startOp.net = "ok" =>
            /\ replayState' = startOp.resp
            /\ showReplayControls' = FALSE
            /\ rev'.refresh = 1 /\ ev'.op = "refreshData"
            /\ startOp'.pc = "idle"
            /\ FetchesInFlight' = FetchesInFlight - 1)
    ]_vars
C20_Witness ==
  /\ rev.op = "startStateDone" /\ rev.out = "ok"
  /\ replayState.active /\ replayState.current_date = 0
  /\ ~showReplayControls
  /\ ev.op = "refreshData"

\* C21: when stopReplay succeeds, handleStop clears the local clock state
\* (replayState becomes null, the controller is not Active), calls no
\* refresh in that step and arms one 500 ms timer; the timer's firing is the
\* one refresh, and nothing but a successful stop arms that timer.
C21_StopClearsThenRefreshes ==
  [][ /\ (rev'.op = "stopDone" /\ stopOp.net = "ok" =>
            /\ replayState' = NullState /\ ~replayState'.active
            /\ stopOp'.pc = "refreshTimer" /\ stopOp'.a = 500
            /\ rev'.refresh = 0 /\ ev' = ev)
      /\ (stopOp'.pc = "refreshTimer" /\ stopOp.pc # "refreshTimer" =>
            rev'.op = "stopDone" /\ stopOp.net = "ok")
      /\ (rev'.op = "stopRefresh" =>
            /\ stopOp.pc = "refreshTimer" /\ stopOp'.pc = "idle"
            /\ rev'.refresh = 1 /\ ev'.op = "refreshData")
    ]_vars
C21_Witness ==
  /\ rev.op = "stopRefresh" /\ rev.refresh = 1
  /\ replayState = NullState
  /\ srv = Inactive
  /\ ev.op = "refreshData"

\* C22: a successful advance, manual or automatic, runs in this order: the
\* advanceReplay request is answered while no getReplayState of the call
\* has been issued and the local clock state is untouched; then
\* getReplayState is issued and answered with the server's clock; then the
\* local clock state is set to exactly that response and one 500 ms timer
\* is armed, with no refresh in that step; then the timer fires and calls
\* the refresh once.
C22_AdvanceThenPollThenRefresh ==
  [][ /\ (rev'.op = "handleAdvance" =>
            advanceOp'.pc = "advanceReplay" /\ replayState' = replayState)
      /\ (rev'.op = "advanceDone" /\ advanceOp.net = "ok" =>
            /\ advanceOp.pc = "advanceReplay" /\ advanceOp'.pc = "getReplayState"
            /\ advanceOp'.net = "ok" => advanceOp'.resp = getReplayState
            /\ replayState' = replayState)
      /\ (rev'.op = "advanceStateDone" /\ advanceOp.net = "ok" =>
            /\ replayState' = advanceOp.resp
            /\ advanceOp'.pc = "refreshTimer" /\ advanceOp'.a = 500
            /\ rev'.refresh = 0 /\ ev' = ev)
      /\ (rev'.op = "advanceRefresh" =>
            /\ advanceOp.pc = "refreshTimer" /\ advanceOp'.pc = "idle"
            /\ rev'.refresh = 1 /\ ev'.op = "refreshData"
            /\ replayState' = replayState)
      /\ \A t \in Ticks :
           /\ (rev'.op = "autoTick" /\ rev'.run = t =>
                 tickOp'[t].pc = "advanceReplay" /\ replayState' = replayState)
           /\ (rev'.op = "tickAdvanceDone" /\ rev'.run = t /\ tickOp[t].net = "ok" =>
                 /\ tickOp[t].pc = "advanceReplay" /\ tickOp'[t].pc = "getReplayState"
                 /\ tickOp'[t].net = "ok" => tickOp'[t].resp = getReplayState
                 /\ replayState' = replayState)
           /\ (rev'.op = "tickStateDone" /\ rev'.run = t /\ tickOp[t].net = "ok" =>
                 /\ replayState' = tickOp[t].resp
                 /\ tickOp'[t].pc = "refreshTimer" /\ tickOp'[t].a = 500
                 /\ rev'.refresh = 0 /\ ev' = ev)
           /\ (rev'.op = "tickRefresh" /\ rev'.run = t =>
                 /\ tickOp[t].pc = "refreshTimer" /\ tickOp'[t].pc = "idle"
                 /\ rev'.refresh = 1 /\ ev'.op = "refreshData"
                 /\ replayState' = replayState)
    ]_vars
C22_Witness ==
  /\ rev.op = "tickRefresh" /\ rev.refresh = 1
  /\ replayState.active /\ replayState.current_date = SECONDS_PER_DAY
  /\ srv = replayState
  /\ advanceOp.pc = "refreshTimer"

\* C23: a failed clock operation changes nothing of the controller: after
\* a startReplay answered success = false or failed, a failed stopReplay, a
\* failed advanceReplay or a failed re-poll (of a manual advance or of a
\* tick), replayState and the panel are as before, no timer of the call is
\* armed and no refresh is called, the step reports the failure, and
\* loading is false after a start or a stop (an advance never sets it); a
\* failed tick leaves the armed intervals as they are.
C23_FailureChangesNothing ==
  [][ /\ (rev'.op = "startReplayDone" /\ startOp.net # "ok" =>
            /\ replayState' = replayState
            /\ showReplayControls' = showReplayControls
            /\ autoTimers' = autoTimers
            /\ startOp' = Idle /\ ~loading'
            /\ rev'.out = startOp.net /\ rev'.refresh = 0 /\ ev' = ev)
      /\ (rev'.op = "stopDone" /\ stopOp.net # "ok" =>
            /\ replayState' = replayState
            /\ autoTimers' = autoTimers
            /\ stopOp' = Idle /\ ~loading'
            /\ rev'.out = stopOp.net /\ rev'.refresh = 0 /\ ev' = ev)
      /\ (rev'.op \in {"advanceDone", "advanceStateDone"} /\ advanceOp.net # "ok" =>
            /\ replayState' = replayState
            /\ autoTimers' = autoTimers
            /\ advanceOp' = Idle /\ loading' = loading
            /\ rev'.out = advanceOp.net /\ rev'.refresh = 0 /\ ev' = ev)
      /\ \A t \in Ticks :
           (rev'.op \in {"tickAdvanceDone", "tickStateDone"} /\ rev'.run = t
              /\ tickOp[t].net # "ok" =>
                /\ replayState' = replayState
                /\ autoTimers' = autoTimers
                /\ tickOp'[t] = Idle /\ loading' = loading
                /\ rev'.out = tickOp[t].net /\ rev'.refresh = 0 /\ ev' = ev)
    ]_vars
C23_Witness ==
  /\ rev.op = "tickStateDone" /\ rev.out = "fail"
  /\ replayState.active /\ replayState.current_date = 0
  /\ srv.active /\ srv.current_date = SECONDS_PER_DAY
  /\ Len(autoTimers) = 1
  /\ ~loading

C25_PeriodIsIntervalOverSpeed ==
  [][ autoTimers' # autoTimers /\ autoTimers' # <<>> =>
        autoTimers'[Len(autoTimers')].period =
          (TradingIntervalSeconds(replayState') * 1000)
            \div replayState'.speed_multiplier
    ]_vars

\* C26: while replayState stays active, a step that changes its
\* speed_multiplier or its trading interval leaves exactly the interval a
\* run of the effect with the new state arms, and every tick that fires has
\* the period of the state applied at that time.
C26_ParameterChangeRearms ==
  [][ /\ (/\ replayState.active /\ replayState'.active
          /\ \/ replayState'.speed_multiplier # replayState.speed_multiplier
             \/ TradingIntervalDays(replayState') # TradingIntervalDays(replayState)
          => autoTimers' = AutoRun(replayState'))
      /\ \A t \in Ticks :
           (rev'.op = "autoTick" /\ rev'.run = t =>
              tickOp'[t].b = speedMs(TradingIntervalDays(replayState),
                                     replayState.speed_multiplier))
    ]_vars

\* C27: at most one interval of the auto-advance effect is armed in every
\* reachable state, whatever the changes of the applied speed and interval,
\* the stops and restarts and the cleanups and re-runs of the effect.
C27_AtMostOneTimer == Len(autoTimers) <= 1
C27_Witness ==
  /\ rev.op = "tickStateDone" /\ rev.out = "ok"
  /\ startOp.pc = "idle" /\ stopOp.pc = "idle"
  /\ srv.active /\ srv.speed_multiplier = 2
  /\ replayState.active /\ replayState.speed_multiplier = 1
  /\ nViewEffects = 2 /\ viewEffect = 2
  /\ autoTimers = <<Interval(2000, 86400)>>

\* C28: every tick calls advanceReplay with 86400 seconds times the trading
\* interval of the clock state applied when it fires, 1 day when that state
\* has no trading_interval_days.
C28_TickAdvancesAppliedInterval ==
  [][ \A t \in Ticks :
        (rev'.op = "autoTick" /\ rev'.run = t =>
           tickOp'[t].a = TradingIntervalDays(replayState) * 86400)
    ]_vars

\* C29: while replayState is active, each value applied to it has a
\* current_date not below the one it replaces, whichever of the periodic
\* poll, the start poll, a manual advance and a tick applies it, as long as
\* the server's clock is running and not behind the replaced value (it has
\* not been restarted).
C29_CurrentNeverDecreases ==
  [][ /\ replayState.active /\ replayState'.active
      /\ srv.active /\ srv.current_date >= replayState.current_date
      => replayState'.current_date >= replayState.current_date
    ]_vars

\* C30: end to end, at speed 1 and interval 1 with every request answered
\* and every armed timer firing: a successful start is followed by the
\* completion of the replay (the server's clock reaches the end of the
\* window and the local clock state becomes inactive, with no interval
\* armed), the ticks advance 86400 seconds each, and the progress observed
\* in the local clock state never decreases while the replay runs.
C30_Completes ==
  (startOp.pc = "startReplay" /\ startOp.net = "ok")
    ~> (~srv.active /\ ~replayState.active /\ autoTimers = <<>>)
C30_EndToEnd ==
  /\ C30_Completes
  /\ [][ /\ (rev'.op = "autoTick" => tickOp'[1].a = 86400)
         /\ (/\ replayState.active /\ replayState'.active
             /\ srv.active /\ srv.current_date >= replayState.current_date
             => progress(replayState') >= progress(replayState))
       ]_vars

\* The steps that are the firing of a timer of the view, and the steps in
\* which the view issues a request.
TimerSteps ==
  {"pollTimer", "autoTick", "startSettle", "advanceRefresh", "stopRefresh",
   "tickRefresh"}
IssuesRequest ==
  \/ rev'.op \in {"pollTimer", "mountView"} /\ rev'.out = "fetch"
  \/ rev'.op \in {"startSettle", "autoTick", "handleStart", "handleStop",
                  "handleAdvance"}
  \/ rev'.op \in {"advanceDone", "tickAdvanceDone"} /\ rev'.out = "ok"

\* C31: while the effects of the view are cleaned up (it is disposed), no
\* timer of the view fires, and no step of the view sets the clock state,
\* calls the refresh callback or issues a request; the resolution of a
\* request that was in flight at disposal does none of these.
C31_DisposedIsInert ==
  [][ viewEffect = 0 /\ viewEffect' = 0
      => /\ rev'.op \notin TimerSteps
         /\ replayState' = replayState
         /\ rev'.refresh = 0
         /\ ~IssuesRequest
    ]_vars

\* The step applies this clock response: setReplayState(state) of the
\* periodic poll, the start poll, a manual advance or a tick.
Applies(state) ==
  \/ \E k \in ViewEffects :
       /\ rev'.op = "pollDone" /\ rev'.run = k /\ rev'.out = "ok"
       /\ pollReq[k].resp = state
  \/ rev'.op = "startStateDone" /\ rev'.out = "ok" /\ startOp.resp = state
  \/ rev'.op = "advanceStateDone" /\ rev'.out = "ok" /\ advanceOp.resp = state
  \/ \E t \in Ticks :
       /\ rev'.op = "tickStateDone" /\ rev'.run = t /\ rev'.out = "ok"
       /\ tickOp[t].resp = state
PanelSteps ==
  {"openControls", "closeControls", "setSpeedMultiplier",
   "setTradingIntervalDays"}
RequestsAndTimers ==
  <<pollTimer, pollReq, startOp, advanceOp, stopOp, tickOp, autoTimers, srv>>

\* C32: the controller is Active exactly when the last applied clock
\* response has active = true and no stop has succeeded since: an applied
\* response makes it Active or not as its `active` says, a successful stop
\* makes it not Active, and no other step changes whether it is Active;
\* opening, editing and closing the panel issue no request, arm no timer
\* and leave the clock state alone.
C32_ActiveFollowsResponses ==
  [][ /\ \A state \in {replayState'} \cup {pollReq[k].resp : k \in ViewEffects}
                  \cup {startOp.resp, advanceOp.resp}
                  \cup {tickOp[t].resp : t \in Ticks} :
           Applies(state) => (isActive' <=> state.active)
      /\ (rev'.op = "stopDone" /\ rev'.out = "ok" => ~isActive')
      /\ (isActive' # isActive
            => \/ rev'.op = "stopDone" /\ rev'.out = "ok"
               \/ \E state \in {replayState'} : Applies(state))
      /\ (rev'.op \in PanelSteps
            => /\ replayState' = replayState
               /\ RequestsAndTimers' = RequestsAndTimers
               /\ rev'.refresh = 0)
    ]_vars
C32_Witness ==
  /\ rev.op = "tickStateDone" /\ rev.out = "ok"
  /\ ~isActive /\ ~replayState.null
  /\ speedMultiplier = 2 /\ pollReq[1].net = "ok"
  /\ stopOp.pc = "idle" /\ ~showReplayControls

\* The points of a series the window of the clock state retains, by their
\* timestamps: every valid point when no replay is active.
InWindow(kd, rs) ==
  SelectSeq(kd, LAMBDA k :
    /\ isValidPrice(k)
    /\ rs.active => /\ rs.start_date - 30 * DAY <= k.timestamp
                    /\ k.timestamp <= rs.current_date)

\* C33: the filtered series of a drawn chart is the series of the valid
\* points whose timestamp t satisfies start - 30 days <= t <= current, in
\* their order, while a replay is active, and the series of all valid
\* points otherwise.
C33_FilterWindow ==
  (klineData # <<>> /\ ~klineError)
    => validKlineData = InWindow(klineData, chartReplayState)

\* The markers of the last render, and the trade a marker was made for.
Markers == {buyMarkers[i] : i \in 1..Len(buyMarkers)}
             \cup {sellMarkers[i] : i \in 1..Len(sellMarkers)}
\* x is the lowest index of the series (counted from 0) whose timestamp is
\* nearest to the target.
FirstNearest(series, target, x) ==
  /\ x \in 0..(Len(series) - 1)
  /\ \A j \in 0..(Len(series) - 1) :
       LET dx == AbsDiff(series[x + 1].timestamp, target)
           dj == AbsDiff(series[j + 1].timestamp, target)
       IN dx <= dj /\ (dj = dx => x <= j)

\* C34: the index of every marker is an index of the filtered series whose
\* timestamp is nearest to the time of its trade, and the lowest of the
\* nearest indices, for every trade whose time is a date.
C34_NearestIndex ==
  \A m \in Markers :
    chartTrades[m.id].trade_time # NaN
      => FirstNearest(validKlineData, chartTrades[m.id].trade_time, m.x)
C34_Witness ==
  /\ cev.op = "chartProps"
  /\ Len(validKlineData) = 3
  /\ Len(buyMarkers) = 2
  /\ chartTrades[buyMarkers[1].id].trade_time = 12 * HOUR /\ buyMarkers[1].x = 0
  /\ chartTrades[buyMarkers[2].id].trade_time = DAY /\ buyMarkers[2].x = 1

\* The price of the last trade of the rendered trades, in their order, that
\* has one of these sides and whose nearest index is x; Absent without one.
LastAt(sides, x) ==
  LET at == {i \in 1..Len(symbolTrades) :
               /\ symbolTrades[i].side \in sides
               /\ closestIndex(validKlineData, symbolTrades[i].trade_time) = x}
  IN IF at = {} THEN Absent
     ELSE symbolTrades[CHOOSE i \in at : \A j \in at : j <= i].price

\* C35: in a drawn chart the buy channel holds, at every index, the price of
\* the last BUY or LONG trade aligned to that index and nothing where there
\* is none, and the sell channel the same for SELL and SHORT: a trade writes
\* its own channel only, at its nearest index, and the last write wins.
C35_ChannelsLastWriteWins ==
  validKlineData # <<>>
    => /\ Len(buyData) = Len(validKlineData)
       /\ Len(sellData) = Len(validKlineData)
       /\ \A x \in 0..(Len(validKlineData) - 1) :
            /\ buyData[x + 1] = LastAt({"BUY", "LONG"}, x)
            /\ sellData[x + 1] = LastAt({"SELL", "SHORT"}, x)
C35_Witness ==
  /\ cev.op = "chartProps"
  /\ Len(validKlineData) = 2
  /\ Len(symbolTrades) = 2
  /\ symbolTrades[1].side = "BUY" /\ symbolTrades[2].side = "LONG"
  /\ buyMarkers[1].x = 0 /\ buyMarkers[2].x = 0
  /\ buyData = <<20, Absent>>
  /\ sellData = <<Absent, Absent>>

\* C36: in a drawn chart every trade of the chart's symbol and market has
\* exactly one marker, a trade of another symbol has none, and the index of
\* every marker is an index of the filtered series.
C36_OneEntryPerMatchingTrade ==
  validKlineData # <<>>
    => /\ \A i \in 1..Len(chartTrades) :
            /\ symbolMatch(chartTrades[i])
                 => Cardinality({m \in Markers : m.id = i}) = 1
            /\ ~symbolMatch(chartTrades[i]) => {m \in Markers : m.id = i} = {}
       /\ Len(buyMarkers) + Len(sellMarkers) = Cardinality(Markers)
       /\ \A m \in Markers : m.x \in 0..(Len(validKlineData) - 1)

\* C37: the count of every series request is a positive integer of at most
\* 500, whatever the timeframe and the history range.
C37_CountWithinLimit ==
  /\ \A i \in 1..Len(klineReq) : klineReq[i] \in 1..500
  /\ cev.op \in {"mountChart", "setTimeframe", "setHistoryRange",
                 "refreshInterval"} => cev.count \in 1..500
  /\ \A tf \in Timeframes, hr \in HistoryRanges :
       getDataCount(tf, hr) \in 1..500
C37_Witness ==
  /\ cev = Cev("setTimeframe", 500)
  /\ timeframe = "1m" /\ historyRange = "2Y"
  /\ klineReq = <<500>>

\* C38: once handleStop has succeeded and cleared replayState, and the server
\* holds no active replay before and after a step (so every request issued
\* after the stop is answered active=false), the step leaves the controller
\* Idle and the auto-advance timer unarmed: a getReplayState response that
\* was produced before the stop never reactivates the controller.
C38_StaysIdleAfterStop ==
  [][ (replayState.null /\ ~srv.active /\ ~srv'.active)
        => (~isActive' /\ autoTimers' = <<>>) ]_vars

\* C39: auto-advance ticks do not overlap: at most one advanceReplay request
\* issued by the auto-advance timer is awaiting its response at a time.
C39_TicksDoNotOverlap ==
  Cardinality({t \in Ticks : tickOp[t].pc = "advanceReplay"}) <= 1

\* C40: while the App is mounted wsRef.current is null or the module
\* singleton; the singleton is null or the most recently created socket,
\* which has not closed; and a close event of a socket leaves a singleton
\* and a wsRef that refer to another socket as they were.
C40_RefIsSingleton ==
  /\ [](/\ mountedEffect # 0 => wsRef \in {0, singleton}
        /\ singleton # 0 =>
             singleton = nSockets /\ readyState[singleton] # "CLOSED")
  /\ [][ ev'.op = "close" =>
           /\ singleton # ev'.sock => singleton' = singleton
           /\ wsRef # ev'.sock => wsRef' = wsRef ]_vars

====
